---------------------------- MODULE Spec2Model ----------------------------
(***************************************************************************)
(* A model of vtkPolyDataBooleanFilter (CombineModels/Logic).              *)
(*                                                                         *)
(* Four specifications share this module:                                  *)
(*   Spec         the pipeline driver RequestData over successive          *)
(*                invocations of one filter;                               *)
(*   SpecCombine  the region selection of CombineRegions;                  *)
(*   SpecStrips   the contact check, GetPolyStrips on both meshes and      *)
(*                CleanStrips, on meshes with integer coordinates;         *)
(*   SpecDisjoin  DisjoinPolys on a small indexed polygon soup.            *)
(* Each specification leaves the variables of the others at their idle     *)
(* value.                                                                  *)
(***************************************************************************)
EXTENDS Integers, Sequences, FiniteSets, TLC

\* ------------------------------------------------------------------------
\* Bounds of the model
\* ------------------------------------------------------------------------

\* largest modification time an input reaches
MaxMTime == 2

\* largest number of lines of a contact curve in the driver
MaxLines == 2

\* ------------------------------------------------------------------------
\* Program constants
\* ------------------------------------------------------------------------

\* the value RequestData returns after a complete run
RetSuccess == 1

\* the value RequestData returns on its error paths
RetError == 1

VARIABLES
    \* --- driver (Spec)
    pc,         \* position of the current invocation of RequestData
    OperMode,   \* the operator mode of the filter
    mtimeA,     \* pdA->GetMTime()
    mtimeB,     \* pdB->GetMTime()
    timePdA,    \* the stored modification time of input A
    timePdB,    \* the stored modification time of input B
    numLines,   \* contLines->GetNumberOfCells()
    numDeleted, \* the number of cells of contLines marked deleted
    modPd,      \* the state of the cut meshes modPdA, modPdB
    ran,        \* the stages executed by the current invocation, in order
    written,    \* the outputs written by the current invocation
    resultA,    \* the content of the first output
    resultB,    \* the content of the second output
    noneBefore, \* an earlier invocation on the filter succeeded under NONE
    err,        \* the diagnostic of the current invocation
    ret,        \* the return value of the current invocation
    \* --- CombineRegions (SpecCombine)
    cpc,        \* position inside CombineRegions
    cmode,      \* OperMode as CombineRegions reads it
    numA,       \* cfA->GetNumberOfExtractedRegions()
    numB,       \* cfB->GetNumberOfExtractedRegions()
    locsA,      \* the region-label map of mesh A
    locsB,      \* the region-label map of mesh B
    failedLines,\* whether _failed holds a line
    skippedUnpaired, \* a line left out by the loop had no two edge polygons
    selA,       \* the regions of A handed to cfA->AddSpecifiedRegion
    selB,       \* the regions of B handed to cfB->AddSpecifiedRegion
    revA,       \* the selected regions of A whose cells are reversed
    revB,       \* the selected regions of B whose cells are reversed
    resCells,   \* the cells of the first output, with the polygon each
                \* descends from
    newOrigCellIdsA, \* the array OrigCellIdsA of the first output
    newOrigCellIdsB, \* the array OrigCellIdsB of the first output
    cret,       \* the return value of CombineRegions
    \* --- DisjoinPolys (SpecDisjoin)
    dpc,        \* position around DisjoinPolys
    pd,         \* the mesh: its points (coordinates) and its cells (rings)
    pd0,        \* the mesh as DisjoinPolys found it
    ends0,      \* the StripPoints of the mesh's polygon bundles
    \* --- contact check, GetPolyStrips, CleanStrips (SpecStrips)
    spc,        \* position in the strip stages of RequestData
    contPts,    \* the coordinates of the points of contLines
    contLines,  \* the cells of contLines with their cell data
    polyStripsA,\* the polygon bundles of mesh A
    polyStripsB,\* the polygon bundles of mesh B
    serr,       \* the diagnostic of the strip stages
    modPdA,     \* the cut mesh A: points, cells, OrigCellIds
    modPdB,     \* the cut mesh B
    polyInd,    \* the polygon at which CutCells returned true
    \* --- single functions on drawn inputs (SpecUnits)
    upc,        \* the function about to run, or "done"
    uStrip,     \* a strip: the sequence of its points (ind)
    uPts,       \* pStrips.pts for the strip: ind and capt of its points
    uMode,      \* the operator GetLoc is called with
    uPolys,     \* the four PolyAtEdge of one contact line
    uRes,       \* what the function returned or left behind
    \* --- the weaving loop of CutCells (SpecWeave)
    wpc,        \* position in the loop over the strips of one polygon
    wStrips,    \* _strips: the strips of the polygon, initialised
    wPolys,     \* _newPolys: the queue of the pieces of the polygon
    wK,         \* the strip the loop is at
    wCycle,     \* cycle: the pieces examined without a split
    wStart,     \* _newPolys as it was when the loop came to the strip
    wLeft,      \* the strips the loop left without a split
    wRet,       \* the value CutCells returns
    \* --- the cells of a mesh and their links, stage by stage (SpecCells)
    kpc,        \* the stage the mesh is in
    kPd,        \* the mesh: points, cells, OrigCellIds, deleted cells
    kLinks,     \* the links of the mesh: the cells listed for each point
    kDirty,     \* the cells were changed after the links were built
    kIter,      \* the polygons CutCells is through with, then the passes
                \* of the loops of the later stages
    kSeen,      \* the points the stage has asked the cells of
    kLog        \* what happened to the links: stages entered without
                \* BuildLinks, queries after a mutation, stale answers

drvVars == <<pc, OperMode, mtimeA, mtimeB, timePdA, timePdB, numLines,
             numDeleted, modPd, ran, written, resultA, resultB, noneBefore, err, ret>>

\* the cells and the arrays CombineRegions builds for the first output
outVars == <<resCells, newOrigCellIdsA, newOrigCellIdsB>>

combVars == <<cpc, cmode, numA, numB, locsA, locsB, failedLines,
             skippedUnpaired, selA,
              selB, revA, revB, cret, outVars>>

disjVars == <<dpc, pd, pd0, ends0>>

stripVars == <<spc, contPts, contLines, polyStripsA, polyStripsB, serr,
               modPdA, modPdB, polyInd>>

unitVars == <<upc, uStrip, uPts, uMode, uPolys, uRes>>

weaveVars == <<wpc, wStrips, wPolys, wK, wCycle, wStart, wLeft, wRet>>

cellVars == <<kpc, kPd, kLinks, kDirty, kIter, kSeen, kLog>>

vars == <<drvVars, combVars, disjVars, stripVars, unitVars, weaveVars,
          cellVars>>

\* ------------------------------------------------------------------------
\* The driver: vtkPolyDataBooleanFilter::RequestData
\* ------------------------------------------------------------------------

Modes == {"UNION", "INTERSECTION", "DIFFERENCE", "DIFFERENCE2", "NONE"}

NoErr == "none"

\* the stages of the cut that cannot fail, in the order of RequestData
VoidStages_Swapped == <<"RestoreOrigPointsA", "RestoreOrigPointsB",
                        "AddAdjacentPointsA", "AddAdjacentPointsB",
                        "ResolveOverlapsA", "ResolveOverlapsB",
                        "DisjoinPolysA", "DisjoinPolysB",
                        "MergePointsA", "MergePointsB">>

VoidStages == <<"RestoreOrigPointsA", "RestoreOrigPointsB",
                "ResolveOverlapsA", "ResolveOverlapsB",
                "AddAdjacentPointsA", "AddAdjacentPointsB",
                "DisjoinPolysA", "DisjoinPolysB",
                "MergePointsA", "MergePointsB">>

\* the constructor
DrvInit ==
    /\ pc = "idle"
    /\ OperMode = "UNION"
    /\ mtimeA = 1
    /\ mtimeB = 1
    /\ timePdA = 0
    /\ timePdB = 0
    /\ numLines = 0
    /\ numDeleted = 0
    /\ modPd = "empty"
    /\ ran = <<>>
    /\ written = {}
    /\ resultA = "empty"
    /\ resultB = "empty"
    /\ noneBefore = FALSE
    /\ err = NoErr
    /\ ret = -1

\* the driver's idle value, for the specifications that do not run it
DrvIdle == DrvInit

\* an error path: the diagnostic and the return, nothing else
Fail(msg) ==
    /\ pc' = "returned"
    /\ err' = msg
    /\ ret' = RetError

\* the caller sets the operator mode between two invocations
SetOperMode ==
    /\ pc \in {"idle", "returned"}
    /\ \E m \in Modes : m # OperMode /\ OperMode' = m
    /\ UNCHANGED <<pc, mtimeA, mtimeB, timePdA, timePdB, numLines, numDeleted,
                   modPd, ran, written, resultA, resultB, noneBefore, err, ret>>

\* the caller modifies input A between two invocations
ModifyA ==
    /\ pc \in {"idle", "returned"}
    /\ mtimeA < MaxMTime
    /\ mtimeA' = mtimeA + 1
    /\ UNCHANGED <<pc, OperMode, mtimeB, timePdA, timePdB, numLines, numDeleted,
                   modPd, ran, written, resultA, resultB, noneBefore, err, ret>>

\* the caller modifies input B between two invocations
ModifyB ==
    /\ pc \in {"idle", "returned"}
    /\ mtimeB < MaxMTime
    /\ mtimeB' = mtimeB + 1
    /\ UNCHANGED <<pc, OperMode, mtimeA, timePdA, timePdB, numLines, numDeleted,
                   modPd, ran, written, resultA, resultB, noneBefore, err, ret>>

\* the pipeline calls RequestData with outputs it has prepared for new
\* data: an output holds nothing of an earlier invocation
PrepareForNewData == "empty"

\* the test at the entry of RequestData: an input is newer than stored
Recompute_OnlyA(mA, tA, mB, tB) == mA > tA

Recompute(mA, tA, mB, tB) == mA > tA \/ mB > tB

\* entry of RequestData: the cut is recomputed iff an input is newer than stored
Begin ==
    /\ pc \in {"idle", "returned"}
    /\ ran' = <<>>
    /\ written' = {}
    /\ err' = NoErr
    /\ ret' = -1
    /\ resultA' = PrepareForNewData
    /\ resultB' = PrepareForNewData
    /\ noneBefore' = (noneBefore \/ "resultB" \in written)
    /\ IF Recompute(mtimeA, timePdA, mtimeB, timePdB)
       THEN /\ pc' = "PreventEqualCaptPoints"
            /\ modPd' = "cleaned"
       ELSE /\ pc' = "CombineRegions"
            /\ modPd' = modPd
    /\ UNCHANGED <<OperMode, mtimeA, mtimeB, timePdA, timePdB, numLines,
                   numDeleted>>

\* PreventEqualCaptPoints(modPdA, modPdB).Run() may throw
PreventEqualCaptPoints ==
    /\ pc = "PreventEqualCaptPoints"
    /\ ran' = Append(ran, "PreventEqualCaptPoints")
    /\ \E throws \in BOOLEAN :
         IF throws
         THEN Fail("Cannot prevent equal capture points.")
         ELSE /\ pc' = "Contact"
              /\ UNCHANGED <<err, ret>>
    /\ UNCHANGED <<OperMode, mtimeA, mtimeB, timePdA, timePdB, numLines,
                   numDeleted, modPd, written, resultA, resultB, noneBefore>>

\* contact.GetLines() may throw; otherwise contLines is a new curve, which
\* is refused when it has no line
Contact ==
    /\ pc = "Contact"
    /\ ran' = Append(ran, "Contact")
    /\ \E throws \in BOOLEAN, n \in 0..MaxLines :
         IF throws
         THEN /\ Fail("Contact failed with")
              /\ UNCHANGED <<numLines, numDeleted>>
         ELSE /\ numLines' = n
              /\ numDeleted' = 0
              /\ IF n = 0
                 THEN Fail("There is no contact.")
                 ELSE /\ pc' = "DegreeCheck"
                      /\ UNCHANGED <<err, ret>>
    /\ UNCHANGED <<OperMode, mtimeA, mtimeB, timePdA, timePdB, modPd, written,
                   resultA, resultB, noneBefore>>

\* the loop over the points of contLines: a point of exactly one line
DegreeCheck ==
    /\ pc = "DegreeCheck"
    /\ ran' = Append(ran, "DegreeCheck")
    /\ \E dangling \in BOOLEAN :
         IF dangling
         THEN Fail("At least one line-end has only one neighbor.")
         ELSE /\ pc' = "GetPolyStripsA"
              /\ UNCHANGED <<err, ret>>
    /\ UNCHANGED <<OperMode, mtimeA, mtimeB, timePdA, timePdB, numLines,
                   numDeleted, modPd, written, resultA, resultB, noneBefore>>

\* a stage of the cut that reports failure by its return value
FallibleStage(stage, next, msg) ==
    /\ pc = stage
    /\ ran' = Append(ran, stage)
    /\ \E failed \in BOOLEAN :
         IF failed
         THEN Fail(msg)
         ELSE /\ pc' = next
              /\ UNCHANGED <<err, ret>>
    /\ UNCHANGED <<OperMode, mtimeA, mtimeB, timePdA, timePdB, numLines,
                   numDeleted, written, resultA, resultB, noneBefore>>

GetPolyStripsA ==
    /\ FallibleStage("GetPolyStripsA", "GetPolyStripsB", "Strips are invalid.")
    /\ UNCHANGED modPd

GetPolyStripsB ==
    /\ FallibleStage("GetPolyStripsB", "CleanStrips", "Strips are invalid.")
    /\ UNCHANGED modPd

\* the count at the end of CleanStrips: every cell of contLines is empty
AllDeleted_OneLeft(j, n) == j > n

AllDeleted(j, n) == j = n

\* CleanStrips marks lines deleted and fails iff none is left
CleanStrips ==
    /\ pc = "CleanStrips"
    /\ ran' = Append(ran, "CleanStrips")
    /\ \E j \in 0..numLines :
         /\ numDeleted' = j
         /\ IF AllDeleted(j, numLines)
            THEN Fail("There is no contact.")
            ELSE /\ pc' = "CutCellsA"
                 /\ UNCHANGED <<err, ret>>
    /\ UNCHANGED <<OperMode, mtimeA, mtimeB, timePdA, timePdB, numLines, modPd,
                   written, resultA, resultB, noneBefore>>

\* CutCells changes the mesh polygon by polygon, also when it fails later
CutCellsA ==
    /\ FallibleStage("CutCellsA", "CutCellsB", "CutCells failed.")
    /\ modPd' = "partial"

CutCellsB ==
    /\ FallibleStage("CutCellsB", VoidStages[1], "CutCells failed.")
    /\ modPd' = "partial"

\* RestoreOrigPoints ... MergePoints, each on A then on B; after the last
\* one the stored modification times are updated
VoidStage ==
    /\ \E k \in 1..Len(VoidStages) :
         /\ pc = VoidStages[k]
         /\ ran' = Append(ran, VoidStages[k])
         /\ IF k < Len(VoidStages)
            THEN /\ pc' = VoidStages[k + 1]
                 /\ UNCHANGED <<timePdA, timePdB, modPd>>
            ELSE /\ pc' = "CombineRegions"
                 /\ timePdA' = mtimeA
                 /\ timePdB' = mtimeB
                 /\ modPd' = "cut"
    /\ UNCHANGED <<OperMode, mtimeA, mtimeB, numLines, numDeleted, written,
                   resultA, resultB, noneBefore, err, ret>>

\* CombineRegions works on copies of the cut meshes.  Under NONE it writes the
\* two cut meshes and the curve; otherwise it fails when a line could not be
\* classified, before any output is written, and else writes the combined
\* mesh and the curve, leaving the second output as it is.
CombineFailed_PartialOutput ==
    /\ Fail("Boolean operation failed.")
    /\ written' = {"resultC"}
    /\ UNCHANGED <<resultA, resultB, numLines, numDeleted>>

\* the return of CombineRegions when a line could not be classified
CombineFailed ==
    /\ Fail("Boolean operation failed.")
    /\ UNCHANGED <<written, resultA, resultB, numLines, numDeleted>>

\* what CombineRegions leaves in the second output: the cut mesh B under
\* NONE, and else what it found there
ResultB_Always(mode, found) == "cutB"

ResultB(mode, found) == IF mode = "NONE" THEN "cutB" ELSE found

CombineRegions ==
    /\ pc = "CombineRegions"
    /\ ran' = Append(ran, "CombineRegions")
    /\ IF OperMode = "NONE"
       THEN /\ written' = {"resultA", "resultB", "resultC"}
            /\ resultA' = "cutA"
            /\ resultB' = ResultB(OperMode, resultB)
            /\ numLines' = numLines - numDeleted
            /\ numDeleted' = 0
            /\ pc' = "returned"
            /\ ret' = RetSuccess
            /\ UNCHANGED err
       ELSE \E failed \in BOOLEAN :
              IF failed
              THEN CombineFailed
              ELSE /\ written' = {"resultA", "resultC"}
                   /\ resultA' = "combined"
                   /\ resultB' = ResultB(OperMode, resultB)
                   /\ numLines' = numLines - numDeleted
                   /\ numDeleted' = 0
                   /\ pc' = "returned"
                   /\ ret' = RetSuccess
                   /\ UNCHANGED err
    /\ UNCHANGED <<OperMode, mtimeA, mtimeB, timePdA, timePdB, modPd,
                   noneBefore>>

RequestData ==
    \/ Begin
    \/ PreventEqualCaptPoints
    \/ Contact
    \/ DegreeCheck
    \/ GetPolyStripsA
    \/ GetPolyStripsB
    \/ CleanStrips
    \/ CutCellsA
    \/ CutCellsB
    \/ VoidStage
    \/ CombineRegions


\* ------------------------------------------------------------------------
\* vtkPolyDataBooleanFilter::CombineRegions
\* ------------------------------------------------------------------------

\* largest number of connected regions of a cut mesh
MaxRegions == 2

Locs == {"None", "Inside", "Outside"}

EmptyMap == [x \in {} |-> "None"]

\* std::map::emplace: an existing entry is kept
Emplace_Overwrite(m, k, v) ==
    [x \in DOMAIN m \cup {k} |-> IF x = k THEN v ELSE m[x]]

Emplace(m, k, v) ==
    IF k \in DOMAIN m
    THEN m
    ELSE [x \in DOMAIN m \cup {k} |-> IF x = k THEN v ELSE m[x]]

CombIdle ==
    /\ cpc = "off"
    /\ cmode = "UNION"
    /\ numA = 0
    /\ numB = 0
    /\ locsA = EmptyMap
    /\ locsB = EmptyMap
    /\ failedLines = FALSE
    /\ skippedUnpaired = FALSE
    /\ selA = {}
    /\ selB = {}
    /\ revA = {}
    /\ revB = {}
    /\ cret = "none"
    /\ resCells = <<>>
    /\ newOrigCellIdsA = <<>>
    /\ newOrigCellIdsB = <<>>

\* entry of CombineRegions: the regions of the two cut meshes are coloured
\* and the label maps are empty
CombInit ==
    /\ cpc = "entry"
    /\ cmode \in Modes
    /\ numA \in 1..MaxRegions
    /\ numB \in 1..MaxRegions
    /\ locsA = EmptyMap
    /\ locsB = EmptyMap
    /\ failedLines = FALSE
    /\ skippedUnpaired = FALSE
    /\ selA = {}
    /\ selB = {}
    /\ revA = {}
    /\ revB = {}
    /\ cret = "none"
    /\ resCells = <<>>
    /\ newOrigCellIdsA = <<>>
    /\ newOrigCellIdsB = <<>>

\* under NONE the cut meshes are returned as they are
CombEntry ==
    /\ cpc = "entry"
    /\ IF cmode = "NONE"
       THEN /\ cpc' = "done"
            /\ cret' = FALSE
       ELSE /\ cpc' = "lines"
            /\ cret' = cret
    /\ UNCHANGED <<cmode, numA, numB, locsA, locsB, failedLines,
                   skippedUnpaired, selA, selB,
                   revA, revB, outVars>>

\* the number of found points whose region has no label yet
NotLocated_AllFound(nearA, nearB) == Cardinality(nearA) + Cardinality(nearB)

NotLocated(nearA, nearB) ==
    Cardinality(nearA \ DOMAIN locsA) + Cardinality(nearB \ DOMAIN locsB)

\* the sets of regions the mesh points found at a line end can lie in: the
\* pass depends on them only through whether one of them has no label
Near(n) == {{}} \cup {{r} : r \in 0..n - 1}

\* one pass of the loop over the contact lines, up to the classification.
\* nearA, nearB: the regions of the mesh points found at the first end of
\* the line; okA, okB: whether GetEdgePolys found the two polygons.
CombLine ==
    /\ cpc = "lines"
    /\ \E deleted \in BOOLEAN :
         IF deleted
         THEN UNCHANGED <<cpc, failedLines, skippedUnpaired>>
         ELSE \E nearA \in Near(numA), nearB \in Near(numB),
                 okA \in BOOLEAN, okB \in BOOLEAN :
                IF NotLocated(nearA, nearB) = 0
                THEN /\ skippedUnpaired' = (skippedUnpaired \/ ~ (okA /\ okB))
                     /\ UNCHANGED <<cpc, failedLines>>
                ELSE IF okA /\ okB
                THEN /\ cpc' = "emplaceFA"
                     /\ UNCHANGED <<failedLines, skippedUnpaired>>
                ELSE /\ failedLines' = TRUE
                     /\ UNCHANGED <<cpc, skippedUnpaired>>
    /\ UNCHANGED <<cmode, numA, numB, locsA, locsB, selA, selB, revA, revB, cret,
                   outVars>>

\* locsA.emplace(fsA, ppA->pA.loc): the region of the first polygon of A at
\* the line, with the label the GetLoc calls left in it, possibly None
CombEmplaceFA ==
    /\ cpc = "emplaceFA"
    /\ \E fsA \in 0..numA - 1, loc \in Locs : locsA' = Emplace(locsA, fsA, loc)
    /\ cpc' = "emplaceLA"
    /\ UNCHANGED <<cmode, numA, numB, locsB, failedLines, skippedUnpaired,
                   selA, selB, revA, revB, cret, outVars>>

\* locsA.emplace(lsA, ppA->pB.loc)
CombEmplaceLA ==
    /\ cpc = "emplaceLA"
    /\ \E lsA \in 0..numA - 1, loc \in Locs : locsA' = Emplace(locsA, lsA, loc)
    /\ cpc' = "emplaceFB"
    /\ UNCHANGED <<cmode, numA, numB, locsB, failedLines, skippedUnpaired,
                   selA, selB, revA, revB, cret, outVars>>

\* locsB.emplace(fsB, ppB->pA.loc)
CombEmplaceFB ==
    /\ cpc = "emplaceFB"
    /\ \E fsB \in 0..numB - 1, loc \in Locs : locsB' = Emplace(locsB, fsB, loc)
    /\ cpc' = "emplaceLB"
    /\ UNCHANGED <<cmode, numA, numB, locsA, failedLines, skippedUnpaired,
                   selA, selB, revA, revB, cret, outVars>>

\* locsB.emplace(lsB, ppB->pB.loc), the end of the pass
CombEmplaceLB ==
    /\ cpc = "emplaceLB"
    /\ \E lsB \in 0..numB - 1, loc \in Locs : locsB' = Emplace(locsB, lsB, loc)
    /\ cpc' = "lines"
    /\ UNCHANGED <<cmode, numA, numB, locsA, failedLines, skippedUnpaired,
                   selA, selB, revA, revB, cret, outVars>>

\* comb[0], comb[1]: the label wanted in A and in B
CombA_Swapped(mode) ==
    IF mode \in {"INTERSECTION", "DIFFERENCE"} THEN "Inside" ELSE "Outside"

CombA(mode) ==
    IF mode \in {"INTERSECTION", "DIFFERENCE2"} THEN "Inside" ELSE "Outside"

CombB(mode) ==
    IF mode \in {"INTERSECTION", "DIFFERENCE"} THEN "Inside" ELSE "Outside"

\* the regions no contact line classified, where they are added
UnlocatedA_Always(mode, n, locs) ==
    {i \in 0..n - 1 : i \notin DOMAIN locs}

UnlocatedA(mode, n, locs) ==
    IF mode \in {"UNION", "DIFFERENCE"}
    THEN {i \in 0..n - 1 : i \notin DOMAIN locs}
    ELSE {}

UnlocatedB(mode, n, locs) ==
    IF mode \in {"UNION", "DIFFERENCE2"}
    THEN {i \in 0..n - 1 : i \notin DOMAIN locs}
    ELSE {}

\* the regions added to a connectivity filter
Specified(locs, comb, unlocated) ==
    {r \in DOMAIN locs : locs[r] = comb} \cup unlocated

\* the selected regions whose cells ReverseCell turns round
Reversed_AllModes(mode, comb, locs, sel) ==
    IF comb = "Inside"
    THEN {r \in sel : r \in DOMAIN locs}
    ELSE {}

Reversed(mode, comb, locs, sel) ==
    IF mode # "INTERSECTION" /\ comb = "Inside"
    THEN {r \in sel : r \in DOMAIN locs}
    ELSE {}

\* the saved arrays cellIdsA, cellIdsB: for each cell of the cleaned mesh
\* the input polygon it was made of; the filter that cleans the inputs can
\* drop polygons, so the ids need not be equal
CellIdsA == (0 :> 1 @@ 1 :> 3)

CellIdsB == (0 :> 0 @@ 1 :> 2)

\* the cells of a cut mesh of n regions: each has the region it lies in
\* and, as OrigCellIds, the cell of the cleaned mesh it was cut from
CutMesh(n) ==
    [k \in 1..(2 * n) |-> [region |-> (k - 1) % n, orig |-> (k - 1) \div n]]

\* regsA, regsB: the cells of the selected regions, in the order of the
\* cut mesh
Regs(cut, sel) == SelectSeq(cut, LAMBDA cell : cell.region \in sel)

\* the loop over the cells of a mesh: the input polygon of each cell for
\* the array of this mesh
OwnIds(regs, cellIds) == [i \in DOMAIN regs |-> cellIds[regs[i].orig]]

\* the value for the array of the other mesh
NoIds_Zero(regs) == [i \in DOMAIN regs |-> 0]

NoIds(regs) == [i \in DOMAIN regs |-> -1]

\* the cells of vtkAppendPolyData: those of regsA, then those of regsB,
\* each with the input polygon it descends from
Appended(regsA, regsB, cellIdsA, cellIdsB) ==
    [i \in DOMAIN regsA |->
        [mesh |-> "A", region |-> regsA[i].region,
         poly |-> cellIdsA[regsA[i].orig]]]
    \o [i \in DOMAIN regsB |->
        [mesh |-> "B", region |-> regsB[i].region,
         poly |-> cellIdsB[regsB[i].orig]]]

\* the first output and its two arrays
CombOutput(regsA, regsB, cellIdsA, cellIdsB) ==
    /\ resCells' = Appended(regsA, regsB, cellIdsA, cellIdsB)
    /\ newOrigCellIdsA' = OwnIds(regsA, cellIdsA) \o NoIds(regsB)
    /\ newOrigCellIdsB' = NoIds(regsA) \o OwnIds(regsB, cellIdsB)

\* after the loop: failure if a line was not classified, else the selection
CombSelect ==
    /\ cpc = "lines"
    /\ IF failedLines
       THEN /\ cret' = TRUE
            /\ UNCHANGED <<selA, selB, revA, revB, outVars>>
       ELSE /\ selA' = Specified(locsA, CombA(cmode), UnlocatedA(cmode, numA, locsA))
            /\ selB' = Specified(locsB, CombB(cmode), UnlocatedB(cmode, numB, locsB))
            /\ revA' = Reversed(cmode, CombA(cmode), locsA, selA')
            /\ revB' = Reversed(cmode, CombB(cmode), locsB, selB')
            /\ CombOutput(Regs(CutMesh(numA), selA'),
                          Regs(CutMesh(numB), selB'), CellIdsA, CellIdsB)
            /\ cret' = FALSE
    /\ cpc' = "done"
    /\ UNCHANGED <<cmode, numA, numB, locsA, locsB, failedLines,
                   skippedUnpaired>>

CombNext ==
    \/ CombEntry
    \/ CombLine
    \/ CombEmplaceFA
    \/ CombEmplaceLA
    \/ CombEmplaceFB
    \/ CombEmplaceLB
    \/ CombSelect

\* ------------------------------------------------------------------------
\* vtkPolyDataBooleanFilter::DisjoinPolys
\* ------------------------------------------------------------------------

\* number of points of the mesh handed to DisjoinPolys
DjPoints == 4

\* largest number of cells of the mesh handed to DisjoinPolys
DjMaxCells == 2

\* the places a mesh point or a contact point can lie at; two points are
\* colocated iff they lie at the same place
DjPlaces == {"p", "q"}

\* the set of the elements of a sequence
Range(f) == {f[k] : k \in DOMAIN f}

\* the points of a set in ascending order, as a ring
RECURSIVE SetToSeq(_)
SetToSeq(S) ==
    IF S = {}
    THEN <<>>
    ELSE LET m == CHOOSE x \in S : \A y \in S : x <= y
         IN <<m>> \o SetToSeq(S \ {m})

\* pd->BuildLinks(): for each point the cells that use it, in cell order
BuildLinks(mesh) ==
    [p \in DOMAIN mesh.pts |->
        SetToSeq({c \in DOMAIN mesh.cells : p \in Range(mesh.cells[c])})]

\* the points of the mesh within the tolerance of a coordinate, as the
\* locator built on the mesh at entry knows them
FindPoints(mesh, pt) ==
    SetToSeq({p \in DOMAIN mesh.pts : mesh.pts[p] = pt})

\* pd->ReplaceCellPoint(cellId, oldPt, newPt)
ReplaceCellPoint(mesh, cellId, oldPt, newPt) ==
    [mesh EXCEPT !.cells[cellId] =
        [k \in DOMAIN @ |-> IF @[k] = oldPt THEN newPt ELSE @[k]]]

\* pd->GetPoints()->InsertNextPoint(pt); the new point is the last one
InsertNextPoint(mesh, pt) ==
    [mesh EXCEPT !.pts = Append(@, pt)]

\* the loop over the cells of one shared point: each cell gets a new point
RECURSIVE DisjoinCells(_, _, _, _, _)
DisjoinCells(mesh, ptId, cells, j, pt) ==
    IF j > Len(cells)
    THEN mesh
    ELSE LET m1 == InsertNextPoint(mesh, pt)
             m2 == ReplaceCellPoint(m1, cells[j], ptId, Len(m1.pts))
         IN DisjoinCells(m2, ptId, cells, j + 1, pt)

\* the test on the number of cells of a found point
IsShared_MoreThanTwo(numCells) == numCells > 2

IsShared(numCells) == numCells > 1

\* the loop over the points found at one StripPoint
RECURSIVE DisjoinPoints(_, _, _, _, _)
DisjoinPoints(mesh, found, i, links, pt) ==
    IF i > Len(found)
    THEN mesh
    ELSE LET cells == links[found[i]]
             m1 == IF IsShared(Len(cells))
                   THEN DisjoinCells(mesh, found[i], cells, 1, pt)
                   ELSE mesh
         IN DisjoinPoints(m1, found, i + 1, links, pt)

\* the set ends: one StripPoint of capture A for each contact-point index
EndsOf(sps) ==
    LET inds == {sp.ind : sp \in {x \in Range(sps) : x.capt = "A"}}
        first(i) == CHOOSE k \in DOMAIN sps :
                        /\ sps[k].ind = i /\ sps[k].capt = "A"
                        /\ \A l \in DOMAIN sps :
                             (sps[l].ind = i /\ sps[l].capt = "A") => k <= l
    IN [k \in 1..Cardinality(inds) |-> sps[first(SetToSeq(inds)[k])]]

\* the loop over ends; links and locator are those built at entry
RECURSIVE DisjoinEnds(_, _, _, _, _)
DisjoinEnds(mesh, ends, k, links, entry) ==
    IF k > Len(ends)
    THEN mesh
    ELSE DisjoinEnds(DisjoinPoints(mesh, FindPoints(entry, ends[k].pt), 1,
                                   links, ends[k].pt),
                     ends, k + 1, links, entry)

DisjoinPolysOf(mesh, sps) ==
    DisjoinEnds(mesh, EndsOf(sps), 1, BuildLinks(mesh), mesh)

\* the triangles over the points of the mesh
DjRings == {SetToSeq(S) : S \in {T \in SUBSET (1..DjPoints) : Cardinality(T) = 3}}

\* the StripPoints of the bundles: contact point 0 lies at p, contact point
\* 1 at q, contact point 0 is seen by two polygons
DjStripPts ==
    {<<[ind |-> 0, capt |-> c0, pt |-> "p"],
       [ind |-> 1, capt |-> c1, pt |-> "q"],
       [ind |-> 0, capt |-> c2, pt |-> "p"]>> :
        c0 \in {"A", "Edge"}, c1 \in {"A", "Not"}, c2 \in {"A", "Edge"}}

DisjIdle ==
    /\ dpc = "off"
    /\ pd = [pts |-> <<>>, cells |-> <<>>]
    /\ pd0 = [pts |-> <<>>, cells |-> <<>>]
    /\ ends0 = <<>>

\* the mesh after AddAdjacentPoints, with its polygon bundles
DisjInit ==
    /\ dpc = "DisjoinPolys"
    /\ \E n \in 1..DjMaxCells :
         pd \in [pts : [1..DjPoints -> DjPlaces], cells : [1..n -> DjRings]]
    /\ pd0 = pd
    /\ ends0 \in DjStripPts

DisjoinPolys ==
    /\ dpc = "DisjoinPolys"
    /\ pd' = DisjoinPolysOf(pd, ends0)
    /\ dpc' = "done"
    /\ UNCHANGED <<pd0, ends0>>

\* ------------------------------------------------------------------------
\* GetStripPoints, GetPolyStrips, CompleteStrips, CleanStrips
\*
\* The meshes carry integer coordinates in the plane z = 0 on a grid whose
\* spacing is far above the tolerance 1e-5 of the code, so that each of
\* its comparisons is an exact one: a distance is below 1e-5 exactly when
\* it is 0, and -1e-5 < t < 1+1e-5 exactly when 0 <= t <= 1.
\* ------------------------------------------------------------------------

\* the value of an unset vertex reference
NOTSET == -1

\* mesh A: two squares that share the edge between the vertices 1 and 2
MeshA ==
    [ pts   |-> (0 :> <<0, 0>> @@ 1 :> <<4, 0>> @@ 2 :> <<4, 4>> @@
                 3 :> <<0, 4>> @@ 4 :> <<8, 0>> @@ 5 :> <<8, 4>>),
      polys |-> (0 :> <<0, 1, 2, 3>> @@ 1 :> <<1, 4, 5, 2>>) ]

\* mesh B: two rectangles in the same plane that share the edge between
\* the vertices 3 and 2
MeshB ==
    [ pts   |-> (0 :> <<-4, -4>> @@ 1 :> <<12, -4>> @@ 2 :> <<12, 2>> @@
                 3 :> <<-4, 2>> @@ 4 :> <<12, 8>> @@ 5 :> <<-4, 8>>),
      polys |-> (0 :> <<0, 1, 2, 3>> @@ 1 :> <<3, 2, 4, 5>>) ]

Sub(p, q) == <<p[1] - q[1], p[2] - q[2]>>

Dot(u, v) == u[1] * v[1] + u[2] * v[2]

\* the z component of the cross product, the only one that is not 0
Cross(u, v) == u[1] * v[2] - u[2] * v[1]

\* the vertex that follows position k of a ring
RingNext(poly, k) == poly[(k % Len(poly)) + 1]

\* the line ids of a bundle without the later lines that join the same two
\* points as an earlier one
RECURSIVE RemoveDuplicates(_, _)
RemoveDuplicates(cells, lines) ==
    IF lines = <<>> THEN <<>>
    ELSE LET n    == Len(lines)
             init == RemoveDuplicates(cells, SubSeq(lines, 1, n - 1))
             a    == cells[lines[n]].f
             b    == cells[lines[n]].g
             seen == \E k \in 1..Len(init) :
                        \/ cells[init[k]].f = a /\ cells[init[k]].g = b
                        \/ cells[init[k]].f = b /\ cells[init[k]].g = a
         IN  IF seen THEN init ELSE Append(init, lines[n])

\* the sources of one mesh in the cell data of a line
SourcesOf(cell, mesh) == IF mesh = "A" THEN cell.srcA ELSE cell.srcB

\* the endpoints of the lines of a bundle with their declared sources, in
\* the order in which GetStripPoints meets them
LineEnds(cells, lines, mesh) ==
    [k \in 1..(2 * Len(lines)) |->
        LET c == cells[lines[(k + 1) \div 2]]
        IN  IF k % 2 = 1 THEN <<c.f, SourcesOf(c, mesh)[1]>>
                         ELSE <<c.g, SourcesOf(c, mesh)[2]>>]

\* allPts: the source of the first occurrence of each endpoint
AllPts(ends) ==
    [ind \in {ends[k][1] : k \in DOMAIN ends} |->
        LET first == CHOOSE k \in DOMAIN ends :
                        /\ ends[k][1] = ind
                        /\ \A m \in 1..(k - 1) : ends[m][1] # ind
        IN  ends[first][2]]

\* links: the number of line ends at each endpoint
Links(ends) ==
    [ind \in {ends[k][1] : k \in DOMAIN ends} |->
        Cardinality({k \in DOMAIN ends : ends[k][1] = ind})]

\* a StripPt as its constructor leaves it
NewStripPt(ind, pt) ==
    [ind |-> ind, pt |-> pt, captPt |-> <<NOTSET, NOTSET>>, cutPt |-> <<NOTSET, NOTSET>>,
     edge |-> <<NOTSET, NOTSET>>, t |-> <<0, 1>>, capt |-> "Not",
     polyId |-> NOTSET, catched |-> TRUE]

\* the test of one polygon edge, from position k of the ring; t is kept
\* as the fraction Dot(v, u) / Dot(u, u)
TestEdge(sp, src, pts, poly, k) ==
    LET a == pts[poly[k]]
        b == pts[RingNext(poly, k)]
        u == Sub(b, a)
        v == Sub(sp.pt, a)
    IN  IF src # NOTSET /\ poly[k] # src THEN sp
        ELSE IF Cross(v, u) = 0 /\ Dot(v, u) >= 0 /\ Dot(v, u) <= Dot(u, u)
        THEN LET hit == [sp EXCEPT !.edge = <<poly[k], RingNext(poly, k)>>,
                                   !.t = <<Dot(v, u), Dot(u, u)>>]
             IN  IF sp.pt = a
                 THEN [hit EXCEPT !.captPt = a, !.capt = "A"]
                 ELSE IF sp.pt = b
                 THEN [hit EXCEPT !.captPt = b, !.capt = "B"]
                 ELSE [hit EXCEPT !.captPt = sp.pt, !.capt = "Edge"]
        ELSE sp

\* the loop over the edges of the polygon: a later hit replaces an earlier
RECURSIVE TestEdges(_, _, _, _, _)
TestEdges(sp, src, pts, poly, k) ==
    IF k > Len(poly) THEN sp
    ELSE TestEdges(TestEdge(sp, src, pts, poly, k), src, pts, poly, k + 1)

\* the captures that lie on the boundary of the polygon
Boundary == {"A", "B", "Edge"}

Normalize_KeepsB(sp, poly) ==
    IF sp.capt \in {"A", "B", "Edge"}
    THEN [sp EXCEPT !.cutPt = sp.captPt]
    ELSE [sp EXCEPT !.cutPt = sp.pt]

\* the second loop of GetStripPoints: a capture at the end of an edge
\* becomes one at the begin of the next edge, and cutPt is chosen
Normalize(sp, poly) ==
    IF sp.capt \in Boundary
    THEN IF sp.capt = "B"
         THEN LET k == CHOOSE i \in 1..Len(poly) : poly[i] = sp.edge[2]
              IN  [sp EXCEPT !.t = <<0, 1>>,
                             !.edge = <<sp.edge[2], RingNext(poly, k)>>,
                             !.capt = "A",
                             !.cutPt = sp.captPt]
         ELSE [sp EXCEPT !.cutPt = sp.captPt]
    ELSE [sp EXCEPT !.cutPt = sp.pt]

\* catched of a StripPt with a declared source, after the loop over the edges
MarkCatched(sp, src) ==
    IF src # NOTSET /\ sp.edge[1] = NOTSET
    THEN [sp EXCEPT !.catched = FALSE] ELSE sp

\* a point that is on no edge and has more than two line ends is Branched
MarkBranched(sp, links) ==
    IF sp.capt = "Not" /\ links > 2
    THEN [sp EXCEPT !.capt = "Branched"] ELSE sp

\* the StripPt of one endpoint
Locate(mesh, coords, poly, ind, src, links) ==
    Normalize(MarkBranched(MarkCatched(TestEdges(NewStripPt(ind, coords[ind]),
                                                 src, mesh.pts, poly, 1),
                                       src),
                           links),
              poly)

\* the StripPts of the endpoints in allPts
StripPtsOf(mesh, coords, poly, allPts, links) ==
    [ind \in DOMAIN allPts |->
        Locate(mesh, coords, poly, ind, allPts[ind], links[ind])]

\* the StripPts of one polygon
GetStripPoints(mesh, coords, cells, poly, lines, which) ==
    StripPtsOf(mesh, coords, poly,
               AllPts(LineEnds(cells, lines, which)),
               Links(LineEnds(cells, lines, which)))

\* the polygon of a mesh that a line contacts
ContOf(cell, which) == IF which = "A" THEN cell.cA ELSE cell.cB

\* polyLines: for each contacted polygon its lines, in the order of their
\* ids and without duplicates
PolyLines(cells, which) ==
    [poly \in {ContOf(cells[i], which) : i \in DOMAIN cells} |->
        RemoveDuplicates(cells,
            SetToSeq({i \in DOMAIN cells : ContOf(cells[i], which) = poly}))]

\* the StripPts of a bundle, each with the id of its polygon
SetPolyId(pts, poly) ==
    [ind \in DOMAIN pts |-> [pts[ind] EXCEPT !.polyId = poly]]

\* the bundles as the first loop of GetPolyStrips leaves them
BundlesOf(mesh, coords, cells, which, polyLines) ==
    [poly \in DOMAIN polyLines |->
        [poly   |-> mesh.polys[poly],
         pts    |-> SetPolyId(GetStripPoints(mesh, coords, cells,
                                             mesh.polys[poly],
                                             polyLines[poly], which),
                              poly),
         strips |-> <<>>]]

NewBundles(mesh, coords, cells, which) ==
    BundlesOf(mesh, coords, cells, which, PolyLines(cells, which))

\* notCatched: the StripPts that caught no edge, polygon by polygon
NotCatched(ps) ==
    LET polys == SetToSeq(DOMAIN ps)
        Of(poly) == LET inds == SetToSeq({ind \in DOMAIN ps[poly].pts :
                                            ~ ps[poly].pts[ind].catched})
                    IN  [k \in DOMAIN inds |-> <<poly, inds[k]>>]
        RECURSIVE Cat(_)
        Cat(k) == IF k > Len(polys) THEN <<>>
                  ELSE Of(polys[k]) \o Cat(k + 1)
    IN  Cat(1)

\* the vertex after id in a ring; the code reads past the end of the ring
\* when id is not in it, which leaves the value open
NextInPoly(ids, id) ==
    IF \E k \in 1..Len(ids) : ids[k] = id
    THEN RingNext(ids, CHOOSE k \in 1..Len(ids) : ids[k] = id)
    ELSE -2

\* the lookup of one StripPt that caught no edge in the bundles of the
\* other polygons, from the k-th polygon on; a later bundle replaces what
\* an earlier one gave
RECURSIVE LookUp(_, _, _, _)
LookUp(ps, sp, polys, k) ==
    IF k > Len(polys) THEN sp
    ELSE LET q == polys[k]
             found == /\ sp.ind \in DOMAIN ps[q].pts
                      /\ q # sp.polyId
                      /\ ps[q].pts[sp.ind].capt = "A"
             corr == ps[q].pts[sp.ind]
             fixed == [sp EXCEPT
                         !.capt = "A",
                         !.edge = <<corr.edge[1],
                                    NextInPoly(ps[sp.polyId].poly,
                                               corr.edge[1])>>,
                         !.t = <<0, 1>>,
                         !.captPt = corr.captPt,
                         !.cutPt = corr.captPt,
                         !.catched = TRUE]
         IN  LookUp(ps, IF found THEN fixed ELSE sp, polys, k + 1)

\* the fall-back loop over notCatched, from its k-th entry on
RECURSIVE FallBack(_, _, _)
FallBack(ps, notCatched, k) ==
    IF k > Len(notCatched) THEN ps
    ELSE LET poly == notCatched[k][1]
             ind  == notCatched[k][2]
             sp   == LookUp(ps, ps[poly].pts[ind], SetToSeq(DOMAIN ps), 1)
         IN  FallBack([ps EXCEPT ![poly].pts[ind] = sp], notCatched, k + 1)

\* whether assert(sp.catched) fails for some StripPt
AssertFails(ps) ==
    \E poly \in DOMAIN ps : \E ind \in DOMAIN ps[poly].pts :
        ~ ps[poly].pts[ind].catched

\* the boundary-captured StripPts of all bundles in the order of the search
\* for equal cut points
BoundaryPts(ps) ==
    LET polys == SetToSeq(DOMAIN ps)
        Of(poly) == LET inds == SetToSeq({ind \in DOMAIN ps[poly].pts :
                                    ps[poly].pts[ind].capt \in Boundary})
                    IN  [k \in DOMAIN inds |-> ps[poly].pts[inds[k]]]
        RECURSIVE Cat(_)
        Cat(k) == IF k > Len(polys) THEN <<>>
                  ELSE Of(polys[k]) \o Cat(k + 1)
    IN  Cat(1)

\* what the search leaves in the map collapsed after it looked at one
\* StripPt: the index goes into a copy of the entry, the entry itself
\* stays as operator[] made it
Collapsed(collapsed, sp) ==
    IF sp.cutPt \in DOMAIN collapsed
    THEN collapsed
    ELSE (sp.cutPt :> {}) @@ collapsed

\* the search for equal cut points, from the k-th StripPt on
RECURSIVE EqualCutPts(_, _, _)
EqualCutPts(sps, collapsed, k) ==
    IF k > Len(sps) THEN FALSE
    ELSE LET entry == Collapsed(collapsed, sps[k])
             inds  == entry[sps[k].cutPt] \cup {sps[k].ind}
         IN  IF Cardinality(inds) > 1 THEN TRUE
             ELSE EqualCutPts(sps, entry, k + 1)

\* the position in _lines of the first line that ends at a point, 0 when
\* there is none
FirstLineAt(lines, ind) ==
    LET at == {k \in 1..Len(lines) : lines[k][1] = ind \/ lines[k][2] = ind}
    IN  IF at = {} THEN 0 ELSE CHOOSE k \in at : \A m \in at : k <= m

FarEnd_First(line, ind) == line[1]

\* the end of a line of _lines that the strip is extended to
FarEnd(line, ind) == IF line[1] = ind THEN line[2] ELSE line[1]

\* _lines.erase(_itr)
Erase(lines, k) == SubSeq(lines, 1, k - 1) \o SubSeq(lines, k + 1, Len(lines))

\* while (FindRight(strip, stripId)) {}
RECURSIVE FindRight(_, _, _, _)
FindRight(strip, lines, pts, id) ==
    LET right == strip[Len(strip)].ind
        k     == FirstLineAt(lines, right)
    IN  IF pts[right].capt = "Not" /\ k # 0
        THEN FindRight(Append(strip, [ind |-> FarEnd(lines[k], right),
                                      strip |-> id]),
                       Erase(lines, k), pts, id)
        ELSE [strip |-> strip, lines |-> lines]

\* while (FindLeft(strip, stripId)) {}
RECURSIVE FindLeft(_, _, _, _)
FindLeft(strip, lines, pts, id) ==
    LET left == strip[1].ind
        k    == FirstLineAt(lines, left)
    IN  IF pts[left].capt = "Not" /\ k # 0
        THEN FindLeft(<<[ind |-> FarEnd(lines[k], left), strip |-> id]>>
                          \o strip,
                      Erase(lines, k), pts, id)
        ELSE [strip |-> strip, lines |-> lines]

\* a strip of two points over one line
NewStrip(line, stripId) ==
    <<[ind |-> line[1], strip |-> stripId],
      [ind |-> line[2], strip |-> stripId]>>

\* the strip grown to the right, then to the left
Grow(r, pts, stripId) == FindLeft(r.strip, r.lines, pts, stripId)

\* the loop that takes the last line of _lines and extends it to a strip
RECURSIVE Assemble(_, _, _, _)
RECURSIVE AssembleNext(_, _, _, _)
Assemble(lines, strips, pts, stripId) ==
    IF lines = <<>> THEN strips
    ELSE AssembleNext(Grow(FindRight(NewStrip(lines[Len(lines)], stripId),
                                     SubSeq(lines, 1, Len(lines) - 1),
                                     pts, stripId),
                           pts, stripId),
                      strips, pts, stripId)

AssembleNext(l, strips, pts, stripId) ==
    Assemble(l.lines, Append(strips, l.strip), pts, stripId + 1)

Reverse(s) == [k \in 1..Len(s) |-> s[Len(s) + 1 - k]]

\* CompleteStrips on one strip
CompleteStrip_Skipped(strip, pts) == strip

CompleteStrip_BothNone(strip, pts) ==
    IF /\ pts[strip[1].ind].ind # pts[strip[Len(strip)].ind].ind
       /\ pts[strip[1].ind].capt = "Not"
       /\ pts[strip[Len(strip)].ind].capt = "Not"
    THEN SubSeq(Reverse(strip), 1, Len(strip) - 1) \o strip
    ELSE strip

CompleteStrip(strip, pts) ==
    LET n     == Len(strip)
        start == pts[strip[1].ind]
        end   == pts[strip[n].ind]
    IN  IF start.ind # end.ind
        THEN IF start.capt = "Not"
             THEN SubSeq(Reverse(strip), 1, n - 1) \o strip
             ELSE IF end.capt = "Not"
             THEN strip \o SubSeq(Reverse(strip), 2, n)
             ELSE strip
        ELSE strip

CompleteStrips(pStrips) ==
    [pStrips EXCEPT !.strips =
        [k \in DOMAIN @ |-> CompleteStrip(@[k], pStrips.pts)]]

\* the lines between consecutive points of the strips of a bundle
TreeLines(pStrips) ==
    UNION {{<<pStrips.strips[s][k].ind, pStrips.strips[s][k + 1].ind>> :
                k \in 1..(Len(pStrips.strips[s]) - 1)} :
           s \in DOMAIN pStrips.strips}

Sign(x) == IF x > 0 THEN 1 ELSE IF x < 0 THEN -1 ELSE 0

Orient(p, q, r) == Sign(Cross(Sub(q, p), Sub(r, p)))

\* r lies in the bounding box of the segment from p to q
InBox(p, q, r) ==
    /\ (p[1] <= r[1] /\ r[1] <= q[1]) \/ (q[1] <= r[1] /\ r[1] <= p[1])
    /\ (p[2] <= r[2] /\ r[2] <= q[2]) \/ (q[2] <= r[2] /\ r[2] <= p[2])

\* tree->IntersectWithLine: the closed segments p1 p2 and q1 q2 meet
IntersectWithLine(p1, p2, q1, q2) ==
    LET o1 == Orient(p1, p2, q1)
        o2 == Orient(p1, p2, q2)
        o3 == Orient(q1, q2, p1)
        o4 == Orient(q1, q2, p2)
    IN  \/ o1 # o2 /\ o3 # o4
        \/ o1 = 0 /\ InBox(p1, p2, q1)
        \/ o2 = 0 /\ InBox(p1, p2, q2)
        \/ o3 = 0 /\ InBox(q1, q2, p1)
        \/ o4 = 0 /\ InBox(q1, q2, p2)

\* the search for two lines of the strips of one bundle that meet without
\* sharing a point
StripsIntersect(pStrips) ==
    LET lines == TreeLines(pStrips)
        at(ind) == pStrips.pts[ind].pt
    IN  \E lineA \in lines : \E lineB \in lines :
            /\ lineB[1] # lineA[1] /\ lineB[2] # lineA[1]
            /\ lineB[1] # lineA[2] /\ lineB[2] # lineA[2]
            /\ IntersectWithLine(at(lineA[1]), at(lineA[2]),
                                 at(lineB[1]), at(lineB[2]))

\* the lines of a bundle as the pairs of their points
LinePairs(cells, lines) ==
    [k \in DOMAIN lines |-> <<cells[lines[k]].f, cells[lines[k]].g>>]

\* the bundles after the fall-back loop
Caught(fresh) == FallBack(fresh, NotCatched(fresh), 1)

\* the bundles with their strips assembled and completed
Built(caught, cells, polyLines) ==
    [poly \in DOMAIN caught |->
        CompleteStrips([caught[poly] EXCEPT !.strips =
            Assemble(LinePairs(cells, polyLines[poly]), <<>>,
                     caught[poly].pts, 0)])]

\* the two searches that make GetPolyStrips return true
StripsOutcome(caught, built) ==
    IF EqualCutPts(BoundaryPts(caught), EmptyMap, 1)
    THEN [polyStrips |-> caught, ret |-> TRUE,
          assertFails |-> AssertFails(caught)]
    ELSE [polyStrips |-> built,
          ret |-> \E poly \in DOMAIN built : StripsIntersect(built[poly]),
          assertFails |-> AssertFails(caught)]

StripsOf(caught, cells, polyLines) ==
    StripsOutcome(caught, Built(caught, cells, polyLines))

\* GetPolyStrips: the bundles it leaves, its return value, and whether
\* assert(sp.catched) fails on the way
GetPolyStrips(mesh, coords, cells, which) ==
    StripsOf(Caught(NewBundles(mesh, coords, cells, which)), cells,
             PolyLines(cells, which))

\* HasArea: the loop from index i on (counted from 0 as in the code);
\* each turn of the loop assigns area anew
RECURSIVE HasAreaLoop(_, _, _)
HasAreaLoop(strip, i, area) ==
    LET n == Len(strip)
    IN  IF i < (n - 1) \div 2
        THEN HasAreaLoop(strip, i + 1, strip[i + 1].ind # strip[n - i].ind)
        ELSE area

HasArea(strip) ==
    IF Len(strip) % 2 = 1 THEN HasAreaLoop(strip, 0, TRUE) ELSE TRUE

\* the strips that FindHoles removes from a bundle
IsHole(strip, pts) ==
    /\ pts[strip[1].ind].capt = "Not"
    /\ pts[strip[Len(strip)].ind].capt = "Not"
    /\ ~ HasArea(strip)

\* the contact points FindHoles puts into inds
HoleInds(polyStrips) ==
    UNION {UNION {{strip[k].ind : k \in DOMAIN strip} :
                    strip \in {polyStrips[poly].strips[s] :
                                 s \in {s \in DOMAIN polyStrips[poly].strips :
                                     IsHole(polyStrips[poly].strips[s],
                                            polyStrips[poly].pts)}}} :
           poly \in DOMAIN polyStrips}

FindHoles(polyStrips) ==
    [poly \in DOMAIN polyStrips |->
        [polyStrips[poly] EXCEPT !.strips =
            LET Keep(strip) == ~ IsHole(strip, polyStrips[poly].pts)
            IN  SelectSeq(@, Keep)]]

\* the bundles left as FindHoles left them
CleanOther_Keeps(polyStrips, inds) == polyStrips

CleanOther(polyStrips, inds) ==
    [poly \in DOMAIN polyStrips |->
        [polyStrips[poly] EXCEPT !.strips =
            LET Keep(strip) == \A k \in DOMAIN strip : strip[k].ind \notin inds
            IN  SelectSeq(@, Keep)]]

\* contLines->DeleteCell on every line at a point of inds
DeleteCells(cells, inds) ==
    [k \in DOMAIN cells |->
        IF cells[k].f \in inds \/ cells[k].g \in inds
        THEN [cells[k] EXCEPT !.del = TRUE] ELSE cells[k]]

\* CleanStrips: the bundles and the lines it leaves, and its return value
CleanStripsOf(psA, psB, cells) ==
    LET inds == HoleInds(psA) \cup HoleInds(psB)
        left == DeleteCells(cells, inds)
    IN  [polyStripsA |-> CleanOther(FindHoles(psA), inds),
         polyStripsB |-> CleanOther(FindHoles(psB), inds),
         contLines   |-> left,
         ret         |-> AllDeleted(Cardinality({k \in DOMAIN left :
                                                    left[k].del}),
                                    Len(left))]

\* --- CutCells

\* a cut mesh before Clean has filled it
NoMesh == [pts |-> <<>>, polys |-> <<>>, origCellIds |-> <<>>,
           deleted |-> {}, woven |-> {}, removed |-> FALSE]

\* the cut mesh at the begin of the strip stages: OrigCellIds holds for
\* each cell its own id
NewModPd(mesh) ==
    [pts |-> mesh.pts, polys |-> mesh.polys,
     origCellIds |-> [i \in DOMAIN mesh.polys |-> i],
     deleted |-> {}, woven |-> {}, removed |-> FALSE]

\* pdPts->InsertNextPoint(pt): the new point gets the next id
PdInsertNextPoint(mpd, pt) ==
    [mpd EXCEPT !.pts = (Cardinality(DOMAIN @) :> pt) @@ @]

\* the new cell gets its own id as OrigCellId
PdInsertNextCell_OwnId(mpd, cell, origId) ==
    [mpd EXCEPT !.polys = (Cardinality(DOMAIN @) :> cell) @@ @,
                !.origCellIds = (Cardinality(DOMAIN @) :> Cardinality(DOMAIN @)) @@ @]

\* pd->InsertNextCell(VTK_POLYGON, cell) with
\* origCellIds->InsertNextValue(origId)
PdInsertNextCell(mpd, cell, origId) ==
    [mpd EXCEPT !.polys = (Cardinality(DOMAIN @) :> cell) @@ @,
                !.origCellIds = (Cardinality(DOMAIN @) :> origId) @@ @]

\* pd->DeleteCell(cellId)
PdDeleteCell(mpd, cellId) == [mpd EXCEPT !.deleted = @ \cup {cellId}]

\* the test for a polygon that only repeats its own boundary: all StripPts
\* are captured on a vertex, and ptsA, the coordinates of the vertices,
\* is equal to ptsB, the coordinates cutPt of the StripPts
TakesShortcut(mpd, pStrips) ==
    /\ \A ind \in DOMAIN pStrips.pts : pStrips.pts[ind].capt \in {"A", "B"}
    /\ {mpd.pts[pStrips.poly[k]] : k \in DOMAIN pStrips.poly}
          = {pStrips.pts[ind].cutPt : ind \in DOMAIN pStrips.pts}

\* the copy of the ring on new points, from position k on
RECURSIVE CopyRing(_, _, _, _)
CopyRing(mpd, poly, k, cell) ==
    IF k > Len(poly) THEN [pd |-> mpd, cell |-> cell]
    ELSE CopyRing(PdInsertNextPoint(mpd, mpd.pts[poly[k]]), poly, k + 1,
                  Append(cell, Cardinality(DOMAIN mpd.pts)))

\* the copied ring becomes a cell with the OrigCellId of the polygon,
\* and the polygon is deleted
ReplaceByCopy(copy, cellId, origId) ==
    PdDeleteCell(PdInsertNextCell(copy.pd, copy.cell, origId), cellId)

\* the ring inserted again on the points it already has
Shortcut_SamePoints(mpd, cellId, pStrips) ==
    ReplaceByCopy([pd |-> mpd, cell |-> pStrips.poly], cellId,
                  mpd.origCellIds[cellId])

Shortcut(mpd, cellId, pStrips) ==
    ReplaceByCopy(CopyRing(mpd, pStrips.poly, 1, <<>>), cellId,
                  mpd.origCellIds[cellId])

\* no strip is taken to run from a Branched point to a Branched point
BothBranched_Never(pStrips) == FALSE

\* a strip from a Branched point to a Branched point
BothBranched(pStrips) ==
    \E s \in DOMAIN pStrips.strips :
        /\ pStrips.pts[pStrips.strips[s][1].ind].capt = "Branched"
        /\ pStrips.pts[pStrips.strips[s][Len(pStrips.strips[s])].ind].capt
              = "Branched"

\* fct: the strips saved as holes
IsHoleStrip(pStrips, s) ==
    /\ pStrips.pts[pStrips.strips[s][1].ind].capt = "Not"
    /\ pStrips.pts[pStrips.strips[s][Len(pStrips.strips[s])].ind].capt
          = "Not"

\* the polygons that have holes
WithHoles(polyStrips) ==
    {poly \in DOMAIN polyStrips :
        \E s \in DOMAIN polyStrips[poly].strips :
            IsHoleStrip(polyStrips[poly], s)}

\* t of the StripPt a is greater than t of the StripPt b (t is kept as a
\* fraction)
TGreater(a, b) == a.t[1] * b.t[2] > b.t[1] * a.t[2]

OrientByEdge_Never(strip, pts) == strip

\* init: a strip whose ends are on the same edge runs with growing t
OrientByEdge(strip, pts) ==
    IF /\ pts[strip[1].ind].edge[1] = pts[strip[Len(strip)].ind].edge[1]
       /\ strip[1].ind # strip[Len(strip)].ind
       /\ TGreater(pts[strip[1].ind], pts[strip[Len(strip)].ind])
    THEN Reverse(strip) ELSE strip

\* init: a strip from a Branched point to the boundary is turned round
OrientByBranch(strip, pts) ==
    IF /\ pts[strip[1].ind].capt = "Branched"
       /\ pts[strip[Len(strip)].ind].capt \in Boundary
    THEN Reverse(strip) ELSE strip

\* init: side and ref of the first element, and of the last if its
\* StripPt is on the boundary; the other elements are as their constructor
\* leaves them
MarkEnds(strip, pts) ==
    [k \in 1..Len(strip) |->
        IF k = 1
        THEN [ind |-> strip[k].ind, side |-> "Start",
              ref |-> pts[strip[k].ind].edge[1]]
        ELSE IF k = Len(strip) /\ pts[strip[k].ind].capt \in Boundary
        THEN [ind |-> strip[k].ind, side |-> "End",
              ref |-> pts[strip[k].ind].edge[1]]
        ELSE [ind |-> strip[k].ind, side |-> "None", ref |-> NOTSET]]

\* the init loop of CutCells on one strip that is no hole
InitStrip(strip, pts) ==
    MarkEnds(OrientByBranch(OrientByEdge(strip, pts), pts), pts)

\* the coordinates of the points that the init loop inserts for the strips
\* from the s-th on: desc[0] and desc[1] for each element of a strip that
\* is no hole
RECURSIVE DescPts(_, _)
DescPts(pStrips, s) ==
    IF s > Len(pStrips.strips) THEN <<>>
    ELSE (IF IsHoleStrip(pStrips, s) THEN <<>>
          ELSE [k \in 1..(2 * Len(pStrips.strips[s])) |->
                  pStrips.pts[pStrips.strips[s][(k + 1) \div 2].ind].cutPt])
         \o DescPts(pStrips, s + 1)

RECURSIVE PdInsertPoints(_, _, _)
PdInsertPoints(mpd, pts, k) ==
    IF k > Len(pts) THEN mpd
    ELSE PdInsertPoints(PdInsertNextPoint(mpd, pts[k]), pts, k + 1)

\* a polygon that is cut along its strips: the points of the strips are
\* inserted, the polygon is deleted and its pieces take its place; the
\* rings of the pieces are not part of the model
Weave(mpd, cellId, pStrips) ==
    [PdDeleteCell(PdInsertPoints(mpd, DescPts(pStrips, 1), 1), cellId)
        EXCEPT !.woven = @ \cup {cellId}]

\* the loop of CutCells over the bundles, from the k-th polygon on; at its
\* end RemoveDeletedCells takes the deleted cells away
RECURSIVE CutLoop(_, _, _, _, _)
CutLoop(mpd, polyStrips, polys, k, throws) ==
    IF k > Len(polys)
    THEN [pd |-> [mpd EXCEPT !.removed = TRUE], ret |-> FALSE,
          polyInd |-> NOTSET]
    ELSE IF TakesShortcut(mpd, polyStrips[polys[k]])
    THEN CutLoop(Shortcut(mpd, polys[k], polyStrips[polys[k]]), polyStrips,
                 polys, k + 1, throws)
    ELSE IF BothBranched(polyStrips[polys[k]])
    THEN [pd |-> mpd, ret |-> TRUE, polyInd |-> polys[k]]
    ELSE IF polys[k] \in throws
    THEN [pd |-> Weave(mpd, polys[k], polyStrips[polys[k]]), ret |-> TRUE,
          polyInd |-> polys[k]]
    ELSE CutLoop(Weave(mpd, polys[k], polyStrips[polys[k]]), polyStrips,
                 polys, k + 1, throws)

\* CutCells: the mesh it leaves, its return value and the polygon at which
\* it returned true
CutCellsOf(mpd, polyStrips, throws) ==
    CutLoop(mpd, polyStrips, SetToSeq(DOMAIN polyStrips), 1, throws)

\* --- the contact curves the strip stages are run on

\* largest number of pairs of contact points that lines join
MaxContPairs == 5

\* the contact points, and the places each of them can lie at
CPts == 0..3

CandPos ==
    (0 :> {<<4, 0>>, <<4, 2>>, <<4, 4>>} @@
     1 :> {<<4, 4>>, <<2, 2>>, <<2, 4>>} @@
     2 :> {<<1, 1>>, <<6, 2>>, <<3, 3>>} @@
     3 :> {<<1, 3>>, <<6, 3>>, <<7, 2>>})

\* the sources the contact provider can declare in mesh A for point 0
CandSources == {NOTSET, 1, 2}

\* a point lies in a polygon or on its boundary (the rings are convex and
\* run counterclockwise)
InPoly(mesh, poly, pt) ==
    \A k \in 1..Len(mesh.polys[poly]) :
        Cross(Sub(mesh.pts[RingNext(mesh.polys[poly], k)],
                  mesh.pts[mesh.polys[poly][k]]),
              Sub(pt, mesh.pts[mesh.polys[poly][k]])) >= 0

\* the pairs (cA, cB), as 2 * cA + cB, of polygons that both hold the two
\* ends of a line: a contact line lies in the polygons it is a contact of
ContTags(coords, i, j) ==
    {2 * p + q : p \in {p \in DOMAIN MeshA.polys :
                          InPoly(MeshA, p, coords[i]) /\
                          InPoly(MeshA, p, coords[j])},
                 q \in {q \in DOMAIN MeshB.polys :
                          InPoly(MeshB, q, coords[i]) /\
                          InPoly(MeshB, q, coords[j])}}

ContPairs == <<<<0, 1>>, <<0, 2>>, <<0, 3>>, <<1, 2>>, <<1, 3>>, <<2, 3>>>>

\* the lines that join one pair of points, one for each tag
LinesOfPair(pair, tags, src0) ==
    LET codes == SetToSeq(tags)
    IN  [m \in DOMAIN codes |->
            [f |-> pair[1], g |-> pair[2],
             cA |-> codes[m] \div 2, cB |-> codes[m] % 2,
             srcA |-> <<IF pair[1] = 0 THEN src0 ELSE NOTSET, NOTSET>>,
             srcB |-> <<NOTSET, NOTSET>>,
             del |-> FALSE]]

\* the contact curves over the first k pairs
RECURSIVE ContCurves(_, _, _)
ContCurves(coords, src0, k) ==
    IF k = 0 THEN {<<>>}
    ELSE {init \o LinesOfPair(ContPairs[k], tags, src0) :
            init \in ContCurves(coords, src0, k - 1),
            tags \in SUBSET ContTags(coords, ContPairs[k][1],
                                     ContPairs[k][2])}

\* two triangles that share the edge from (4,0) to (0,4), and a second
\* mesh that is equal to the first
MeshTA ==
    [ pts   |-> (0 :> <<0, 0>> @@ 1 :> <<4, 0>> @@ 2 :> <<0, 4>> @@
                 3 :> <<4, 4>>),
      polys |-> (0 :> <<0, 1, 2>> @@ 1 :> <<1, 3, 2>>) ]

\* the places the contact points on the triangles can lie at
TCandPos ==
    (0 :> {<<0, 0>>} @@
     1 :> {<<4, 0>>, <<2, 0>>} @@
     2 :> {<<0, 4>>, <<1, 1>>, <<2, 2>>})

\* the pairs (cA, cB), as 2 * cA + cB, of polygons of two meshes that both
\* hold the two ends of a line
TagsIn(mA, mB, coords, i, j) ==
    {2 * p + q : p \in {p \in DOMAIN mA.polys :
                          InPoly(mA, p, coords[i]) /\
                          InPoly(mA, p, coords[j])},
                 q \in {q \in DOMAIN mB.polys :
                          InPoly(mB, q, coords[i]) /\
                          InPoly(mB, q, coords[j])}}

\* the contact curves of two meshes over the first k pairs, no source
\* declared
RECURSIVE CurvesIn(_, _, _, _, _)
CurvesIn(mA, mB, coords, pairs, k) ==
    IF k = 0 THEN {<<>>}
    ELSE {init \o LinesOfPair(pairs[k], tags, NOTSET) :
            init \in CurvesIn(mA, mB, coords, pairs, k - 1),
            tags \in SUBSET TagsIn(mA, mB, coords, pairs[k][1],
                                   pairs[k][2])}

StripsIdle ==
    /\ spc = "idle"
    /\ contPts = <<>>
    /\ contLines = <<>>
    /\ polyStripsA = EmptyMap
    /\ polyStripsB = EmptyMap
    /\ serr = NoErr
    /\ modPdA = NoMesh
    /\ modPdB = NoMesh
    /\ polyInd = NOTSET

\* the state before GetPolyStrips: two squares cut by a mesh that crosses
\* them, or two triangles and a mesh that lies on them
StripsInit ==
    /\ spc = "CheckContLines"
    /\ \/ /\ modPdA = NewModPd(MeshA)
          /\ modPdB = NewModPd(MeshB)
          /\ contPts \in {c \in [CPts -> UNION {CandPos[i] : i \in CPts}] :
                            \A i \in CPts : c[i] \in CandPos[i]}
          /\ \E src0 \in CandSources :
               contLines \in
                  {c \in ContCurves(contPts, src0, Len(ContPairs)) :
                     Cardinality({<<c[k].f, c[k].g>> : k \in DOMAIN c})
                        <= MaxContPairs}
       \/ /\ modPdA = NewModPd(MeshTA)
          /\ modPdB = NewModPd(MeshTA)
          /\ contPts \in {c \in [DOMAIN TCandPos ->
                                    UNION {TCandPos[i] : i \in DOMAIN TCandPos}] :
                            \A i \in DOMAIN TCandPos : c[i] \in TCandPos[i]}
          /\ contLines \in CurvesIn(MeshTA, MeshTA, contPts,
                                     <<<<0, 1>>, <<0, 2>>, <<1, 2>>>>, 3)
    /\ polyStripsA = EmptyMap
    /\ polyStripsB = EmptyMap
    /\ serr = NoErr
    /\ polyInd = NOTSET

\* the checks of RequestData on the contact curve
CheckContLines ==
    /\ spc = "CheckContLines"
    /\ IF Len(contLines) = 0
       THEN spc' = "returned" /\ serr' = "There is no contact."
       ELSE IF \E i \in DOMAIN contPts :
                  Cardinality({k \in DOMAIN contLines :
                      contLines[k].f = i \/ contLines[k].g = i}) = 1
       THEN /\ spc' = "returned"
            /\ serr' = "At least one line-end has only one neighbor."
       ELSE spc' = "GetPolyStripsA" /\ serr' = serr
    /\ UNCHANGED <<contPts, contLines, polyStripsA, polyStripsB, modPdA,
                   modPdB, polyInd>>

\* GetPolyStrips on mesh A; a failing assert ends the program in a build
\* that keeps asserts and is skipped in one that drops them
RunGetPolyStripsA ==
    /\ spc = "GetPolyStripsA"
    /\ LET r == GetPolyStrips(modPdA, contPts, contLines, "A")
       IN  \E asserts \in BOOLEAN :
             IF r.assertFails /\ asserts
             THEN spc' = "aborted" /\ UNCHANGED <<polyStripsA, serr>>
             ELSE /\ polyStripsA' = r.polyStrips
                  /\ IF r.ret
                     THEN spc' = "returned" /\ serr' = "Strips are invalid."
                     ELSE spc' = "GetPolyStripsB" /\ serr' = serr
    /\ UNCHANGED <<contPts, contLines, polyStripsB, modPdA, modPdB, polyInd>>

RunGetPolyStripsB ==
    /\ spc = "GetPolyStripsB"
    /\ LET r == GetPolyStrips(modPdB, contPts, contLines, "B")
       IN  \E asserts \in BOOLEAN :
             IF r.assertFails /\ asserts
             THEN spc' = "aborted" /\ UNCHANGED <<polyStripsB, serr>>
             ELSE /\ polyStripsB' = r.polyStrips
                  /\ IF r.ret
                     THEN spc' = "returned" /\ serr' = "Strips are invalid."
                     ELSE spc' = "CleanStrips" /\ serr' = serr
    /\ UNCHANGED <<contPts, contLines, polyStripsA, modPdA, modPdB, polyInd>>

RunCleanStrips ==
    /\ spc = "CleanStrips"
    /\ LET r == CleanStripsOf(polyStripsA, polyStripsB, contLines)
       IN  /\ polyStripsA' = r.polyStripsA
           /\ polyStripsB' = r.polyStripsB
           /\ contLines' = r.contLines
           /\ IF r.ret
              THEN spc' = "returned" /\ serr' = "There is no contact."
              ELSE spc' = "CutCells" /\ serr' = serr
    /\ UNCHANGED <<contPts, modPdA, modPdB, polyInd>>

\* CutCells on mesh A; the constructor of Merger may throw for a polygon
\* that has holes
RunCutCellsA ==
    /\ spc = "CutCells"
    /\ \E throws \in SUBSET WithHoles(polyStripsA) :
         \E r \in {CutCellsOf(modPdA, polyStripsA, throws)} :
            /\ modPdA' = r.pd
            /\ polyInd' = r.polyInd
            /\ IF r.ret
               THEN spc' = "returned" /\ serr' = "CutCells failed."
               ELSE spc' = "CutCellsB" /\ serr' = serr
    /\ UNCHANGED <<contPts, contLines, polyStripsA, polyStripsB, modPdB>>

RunCutCellsB ==
    /\ spc = "CutCellsB"
    /\ \E throws \in SUBSET WithHoles(polyStripsB) :
         \E r \in {CutCellsOf(modPdB, polyStripsB, throws)} :
            /\ modPdB' = r.pd
            /\ polyInd' = r.polyInd
            /\ IF r.ret
               THEN spc' = "returned" /\ serr' = "CutCells failed."
               ELSE spc' = "RestoreOrigPoints" /\ serr' = serr
    /\ UNCHANGED <<contPts, contLines, polyStripsA, polyStripsB, modPdA>>

\* ------------------------------------------------------------------------
\* Single functions on drawn inputs (SpecUnits): HasArea, CompleteStrips,
\* PolyPair::GetLoc
\* ------------------------------------------------------------------------

\* the longest strip drawn
MaxStripLen == 5

\* the contact points drawn are 0..MaxInd
MaxInd == 3

\* the most labels computed one after the other for the regions of a mesh
MaxLabels == 3

\* the most contact lines drawn for one polygon, and the number of points
\* they join
MaxBundle == 3

\* the directions around a contact line are 0..Dirs-1, in equal steps of
\* a full turn
Dirs == 4

UnitsIdle ==
    /\ upc = "idle"
    /\ uStrip = <<>>
    /\ uPts = <<>>
    /\ uMode = "NONE"
    /\ uPolys = <<>>
    /\ uRes = NOTSET

\* a PolyAtEdge in the plane across its contact line: th is the direction
\* in which the polygon leaves the line, s the sense in which its ring runs
\* along the line (e = s * E).  r = e x n is the direction opposite to th
\* whatever s is, and n = r x e turns over with s.
PolyAtEdge(th, s) == [th |-> th, s |-> s, loc |-> "None"]

\* n.p.n beyond eps and r.p.r beyond eps: the same direction th; then the
\* normals agree iff the rings run the same way
IsCongruent(p, q) ==
    IF p.th = q.th
    THEN IF p.s = q.s THEN "Equal" ELSE "Opposite"
    ELSE "Not"

\* GetAngle(vA, vB, n): the angle from vA to vB about n, in [0, 2 pi)
GetAngle(thA, thB, s) == ((thB - thA) * s) % Dirs

\* the branch of GetLoc for a polygon p of the pair that is congruent
\* (c) with pT: what p.loc and pT.loc are afterwards
LocCongruent_BothInside(c, mode, p, pT) ==
    IF c = "Opposite"
    THEN IF mode = "INTERSECTION"
         THEN <<"Outside", "Outside">>
         ELSE <<"Inside", "Inside">>
    ELSE IF mode \in {"UNION", "INTERSECTION"}
    THEN <<"Inside", "Inside">>
    ELSE <<p.loc, pT.loc>>

LocCongruent_OppositeOutside(c, mode, p, pT) ==
    IF c = "Opposite"
    THEN <<"Outside", "Outside">>
    ELSE IF mode \in {"UNION", "INTERSECTION"}
    THEN <<"Inside", "Outside">>
    ELSE <<p.loc, pT.loc>>

LocCongruent(c, mode, p, pT) ==
    IF c = "Opposite"
    THEN IF mode = "INTERSECTION"
         THEN <<"Outside", "Outside">>
         ELSE <<"Inside", "Inside">>
    ELSE IF mode \in {"UNION", "INTERSECTION"}
    THEN <<"Inside", "Outside">>
    ELSE <<p.loc, pT.loc>>

\* PolyPair::GetLoc(pT, mode) on the pair pp: the pair and pT afterwards
GetLoc(pp, pT, mode) ==
    LET cA == IsCongruent(pp.pA, pT)
        cB == IsCongruent(pp.pB, pT)
    IN  IF cA \in {"Equal", "Opposite"}
        THEN [pA |-> [pp.pA EXCEPT
                        !.loc = LocCongruent(cA, mode, pp.pA, pT)[1]],
              pB |-> pp.pB,
              pT |-> [pT EXCEPT
                        !.loc = LocCongruent(cA, mode, pp.pA, pT)[2]]]
        ELSE IF cB \in {"Equal", "Opposite"}
        THEN [pA |-> pp.pA,
              pB |-> [pp.pB EXCEPT
                        !.loc = LocCongruent(cB, mode, pp.pB, pT)[1]],
              pT |-> [pT EXCEPT
                        !.loc = LocCongruent(cB, mode, pp.pB, pT)[2]]]
        ELSE [pA |-> pp.pA,
              pB |-> pp.pB,
              pT |-> [pT EXCEPT !.loc =
                        IF GetAngle(pp.pA.th, pT.th, pp.pA.s)
                             > GetAngle(pp.pA.th, pp.pB.th, pp.pA.s)
                        THEN "Inside" ELSE "Outside"]]

\* one call by->GetLoc(of->which, OperMode) on q = [ppA |-> the pair of
\* mesh A, ppB |-> the pair of mesh B]: GetLoc writes into the two
\* polygons of the pair by and into the polygon it is given
LocatePoly(q, by, of, which, mode) ==
    LET r == GetLoc(q[by], q[of][which], mode)
    IN  [x \in {"ppA", "ppB"} |->
            IF x = by THEN [pA |-> r.pA, pB |-> r.pB]
            ELSE [q[of] EXCEPT ![which] = r.pT]]

\* the four calls CombineRegions makes for one contact line, in their
\* order: the pair that locates, the pair of the polygon and the polygon
GetLocCalls ==
    <<<<"ppB", "ppA", "pA">>, <<"ppB", "ppA", "pB">>,
      <<"ppA", "ppB", "pA">>, <<"ppA", "ppB", "pB">>>>

RunHasArea ==
    /\ upc = "strip"
    /\ uRes' = HasArea(uStrip)
    /\ upc' = "HasArea"
    /\ UNCHANGED <<uStrip, uPts, uMode, uPolys>>

RunCompleteStrips ==
    /\ upc = "strip"
    /\ uRes' = CompleteStrips([pts |-> uPts, strips |-> <<uStrip>>]).strips[1]
    /\ upc' = "CompleteStrips"
    /\ UNCHANGED <<uStrip, uPts, uMode, uPolys>>

\* the next of the four GetLoc calls for the line; uRes holds the four
\* PolyAtEdge with the labels the calls have left so far
RunGetLoc ==
    /\ upc \in {"polys", "GetLoc1", "GetLoc2", "GetLoc3"}
    /\ \E k \in 1..4 :
         /\ upc = <<"polys", "GetLoc1", "GetLoc2", "GetLoc3">>[k]
         /\ uRes' = LocatePoly(uRes, GetLocCalls[k][1], GetLocCalls[k][2],
                               GetLocCalls[k][3], uMode)
         /\ upc' = <<"GetLoc1", "GetLoc2", "GetLoc3", "GetLoc">>[k]
    /\ UNCHANGED <<uStrip, uPts, uMode, uPolys>>

\* the init loop of CutCells on a strip it keeps
RunInitStrip ==
    /\ upc = "kept"
    /\ uRes' = InitStrip(uStrip, uPts)
    /\ upc' = "init"
    /\ UNCHANGED <<uStrip, uPts, uMode, uPolys>>

\* the lines of one polygon: RemoveDuplicates, then the loop that assembles
\* the strips, before CompleteStrips
RunAssemble ==
    /\ upc = "lines"
    /\ uRes' = Assemble(LinePairs(uPolys, RemoveDuplicates(uPolys,
                                     [k \in DOMAIN uPolys |-> k])),
                        <<>>, uPts, 0)
    /\ upc' = "Assemble"
    /\ UNCHANGED <<uStrip, uPts, uMode, uPolys>>

\* locs.emplace(region, loc) for the next label computed for a region of a
\* mesh
RunEmplace ==
    /\ upc = "labels"
    /\ uRes.k < Len(uPolys)
    /\ uRes' = [locs |-> Emplace(uRes.locs, uPolys[uRes.k + 1].region,
                                 uPolys[uRes.k + 1].loc),
                k |-> uRes.k + 1]
    /\ UNCHANGED <<upc, uStrip, uPts, uMode, uPolys>>

\* ------------------------------------------------------------------------
\* The weaving loop of CutCells on one polygon without holes
\* ------------------------------------------------------------------------

\* the most strips woven into the polygon
MaxWeave == 2

\* the ring of the polygon, a square; its points are the first of the mesh
WRing == <<0, 1, 2, 3>>

\* pStrips.pts of the polygon: point 0 on the vertex 0, the points 1 and 5
\* on the edge (0,1), 4 on the edge (1,2), 2 on the edge (2,3), the
\* points 3 and 6 inside the polygon
WPts ==
    [i \in 0..6 |->
        [ind |-> i,
         capt |-> <<"A", "Edge", "Edge", "Not", "Edge", "Edge", "Not">>[i + 1],
         edge |-> << <<0, 1>>, <<0, 1>>, <<2, 3>>, <<NOTSET, NOTSET>>,
                     <<1, 2>>, <<0, 1>>, <<NOTSET, NOTSET>> >>[i + 1],
         t |-> IF i = 5 THEN <<3, 4>>
               ELSE IF i \in {1, 2, 4} THEN <<1, 2>> ELSE <<0, 1>>]]

\* the strips GetPolyStrips can leave for the polygon: from edge to edge,
\* from the vertex to an edge, closed strips without area and a strip with
\* area whose ends are on one edge
WStripSet ==
    {<<1, 2>>, <<2, 1>>, <<4, 2>>, <<1, 4>>, <<0, 2>>, <<0, 3, 0>>,
     <<0, 3, 6, 3, 0>>, <<1, 3, 5>>}

\* two strips that cannot both be strips of the polygon: they are the same
\* line, share an inner point or cross each other
WClash(a, b) ==
    \/ a = b
    \/ 3 \in Range(a) \cap Range(b)
    \/ {a, b} = {<<1, 2>>, <<2, 1>>}
    \/ /\ <<1, 3, 5>> \in {a, b}
       /\ {a, b} \cap {<<1, 2>>, <<2, 1>>, <<1, 4>>} # {}

\* the number of elements of the strips before strip s
RECURSIVE WOffset(_, _)
WOffset(f, s) == IF s = 1 THEN 0 ELSE WOffset(f, s - 1) + Len(f[s - 1])

\* init: desc of the elements of a strip, two new points of the mesh for
\* each element
WithDesc(strip, off) ==
    [k \in 1..Len(strip) |->
        [ind |-> strip[k].ind, side |-> strip[k].side, ref |-> strip[k].ref,
         desc |-> <<Len(WRing) + 2 * (off + k - 1),
                    Len(WRing) + 2 * (off + k - 1) + 1>>]]

\* the strips of the polygon as the init loop leaves them
WInitStrips(f) ==
    [s \in 1..Len(f) |->
        WithDesc(InitStrip([k \in 1..Len(f[s]) |-> [ind |-> f[s][k]]], WPts),
                 WOffset(f, s))]

\* the place of a point of the mesh: a vertex of the ring, or cutPt of the
\* StripPt its element stands for
WLoc(strips, id) ==
    IF id < Len(WRing) THEN id
    ELSE LET at == CHOOSE at \in {<<s, k>> : s \in DOMAIN strips, k \in 1..7} :
                      /\ at[2] <= Len(strips[at[1]])
                      /\ id \in Range(strips[at[1]][at[2]].desc)
             sp == WPts[strips[at[1]][at[2]].ind]
         IN  IF sp.capt = "A" THEN sp.edge[1] ELSE 10 + sp.ind

\* desc[0] of the elements of a strip, in the order of the strip
Desc0(strip) == [k \in 1..Len(strip) |-> strip[k].desc[1]]

\* desc[1] of the elements of a strip, from its end to its start
RevDesc1(strip) == [k \in 1..Len(strip) |-> strip[Len(strip) + 1 - k].desc[2]]

\* the walk along _next that changes the piece at start.ref and end.ref
RECURSIVE SplitWalk(_, _, _, _, _)
SplitWalk(next, k, curr, sp, strip) ==
    IF k > Len(next) THEN sp
    ELSE IF next[k] = strip[1].ref
    THEN SplitWalk(next, k + 1, 3 - curr,
                   [sp EXCEPT ![curr] = @ \o <<next[k]>> \o Desc0(strip)],
                   strip)
    ELSE IF next[k] = strip[Len(strip)].ref
    THEN SplitWalk(next, k + 1, 3 - curr,
                   [sp EXCEPT ![curr] = @ \o <<next[k]>> \o RevDesc1(strip)],
                   strip)
    ELSE SplitWalk(next, k + 1, curr,
                   [sp EXCEPT ![curr] = Append(@, next[k])], strip)

\* the walk along _next for a strip whose ends have the same ref
RECURSIVE SplitSame(_, _, _, _)
SplitSame(next, k, poly, strip) ==
    IF k > Len(next) THEN poly
    ELSE SplitSame(next, k + 1,
                   IF next[k] = strip[1].ref
                   THEN poly \o <<next[k]>> \o Desc0(strip)
                   ELSE Append(poly, next[k]),
                   strip)

\* splitted: the two pieces the strip makes of _next, both empty if
\* start.ref is no point of _next
Splitted(next, strip) ==
    IF strip[1].ref \notin Range(next) THEN << <<>>, <<>> >>
    ELSE IF strip[1].ref = strip[Len(strip)].ref
    THEN <<SplitSame(next, 1, <<>>, strip), RevDesc1(strip)>>
    ELSE SplitWalk(next, 1, 1, << <<>>, <<>> >>, strip)

\* CleanPoly: a point at the place of the point after it is left out
RECURSIVE CleanPolyFrom(_, _, _)
CleanPolyFrom(poly, k, strips) ==
    IF k > Len(poly) THEN <<>>
    ELSE (IF WLoc(strips, poly[k])
               = WLoc(strips, poly[IF k = Len(poly) THEN 1 ELSE k + 1])
          THEN <<>> ELSE <<poly[k]>>)
         \o CleanPolyFrom(poly, k + 1, strips)

CleanPoly(poly, strips) == CleanPolyFrom(poly, 1, strips)

KeptPieces_Both(sp, area) ==
    (IF Len(sp[1]) > 2 THEN <<sp[1]>> ELSE <<>>)
        \o (IF Len(sp[2]) > 2 THEN <<sp[2]>> ELSE <<>>)

\* the pieces pushed to the back of _newPolys after a split
KeptPieces(sp, area) ==
    (IF Len(sp[1]) > 2 THEN <<sp[1]>> ELSE <<>>)
        \o (IF area /\ Len(sp[2]) > 2 THEN <<sp[2]>> ELSE <<>>)

\* the positions of the ends of a strip
Ends(strip) == {1, Len(strip)}

\* the ends of the strips up to k that are in the bundle of edges of the
\* end e of strip s, as pairs of a strip and a position
BundleEnds(strips, k, s, e) ==
    {jp \in (1..k) \X (1..7) :
        /\ jp[2] \in Ends(strips[jp[1]])
        /\ WPts[strips[jp[1]][jp[2]].ind].edge[1]
              = WPts[strips[s][e].ind].edge[1]}

\* _ref of an end found before sp in the bundle
BackRef(p) == IF p.side = "End" THEN p.desc[1] ELSE p.desc[2]

\* _ref of an end found after sp in the bundle
ForwardRef(p) == IF p.side = "Start" THEN p.desc[1] ELSE p.desc[2]

\* the values "refs aktualisieren" can give the ref of the end e of a
\* later strip s after the split by strip k: the ref it has, _ref of an
\* end of a strip up to k that is not after it on the edge, _ref of such
\* an end in the same point, or the ref of the other end of its strip if
\* that is before it on the edge. The bundle is sorted by t, the order of
\* the ends in one point, which selects one of the values, is not part of
\* the model.
NewRefs(strips, k, s, e) ==
    {strips[s][e].ref}
      \cup {BackRef(strips[jp[1]][jp[2]]) :
              jp \in {jp \in BundleEnds(strips, k, s, e) :
                        ~ TGreater(WPts[strips[jp[1]][jp[2]].ind],
                                   WPts[strips[s][e].ind])}}
      \cup {ForwardRef(strips[jp[1]][jp[2]]) :
              jp \in {jp \in BundleEnds(strips, k, s, e) :
                        strips[jp[1]][jp[2]].ind = strips[s][e].ind}}
      \cup {strips[s][p].ref : p \in {p \in Ends(strips[s]) \ {e} :
                    /\ WPts[strips[s][p].ind].edge[1]
                          = WPts[strips[s][e].ind].edge[1]
                    /\ ~ TGreater(WPts[strips[s][p].ind],
                                  WPts[strips[s][e].ind])}}

\* a later strip with the refs of its ends set anew
RefChoices(strips, k, s) ==
    {[strips[s] EXCEPT ![1].ref = a, ![Len(strips[s])].ref = b] :
        a \in NewRefs(strips, k, s, 1),
        b \in NewRefs(strips, k, s, Len(strips[s]))}

\* the strips after the split by strip k: the strips after k with refs set
\* anew, the others as they are
RECURSIVE RefUpdates(_, _, _)
RefUpdates(strips, k, s) ==
    IF s = 0 THEN {<<>>}
    ELSE {Append(p, c) : p \in RefUpdates(strips, k, s - 1),
                         c \in IF s > k THEN RefChoices(strips, k, s)
                               ELSE {strips[s]}}

WeaveIdle ==
    /\ wpc = "off"
    /\ wStrips = <<>>
    /\ wPolys = <<>>
    /\ wK = 0
    /\ wCycle = 0
    /\ wStart = <<>>
    /\ wLeft = {}
    /\ wRet = "none"

\* the polygon with its strips after the init loop, _newPolys {next}
WeaveInit ==
    /\ wpc = "for"
    /\ \E n \in 1..MaxWeave : \E f \in [1..n -> WStripSet] :
          /\ \A i, j \in 1..n : i < j => ~ WClash(f[i], f[j])
          /\ wStrips = WInitStrips(f)
    /\ wPolys = <<WRing>>
    /\ wK = 1
    /\ wCycle = 0
    /\ wStart = <<WRing>>
    /\ wLeft = {}
    /\ wRet = "none"

\* for (auto &s : _strips): the loop comes to a strip, cycle = 0
WeaveFor ==
    /\ wpc = "for"
    /\ wK <= Len(wStrips)
    /\ wpc' = "while"
    /\ wCycle' = 0
    /\ wStart' = wPolys
    /\ UNCHANGED <<wStrips, wPolys, wK, wLeft, wRet>>

\* cycle == _newPolys.size(): every piece was examined, the strip is left
WeaveBreak ==
    /\ wpc = "while"
    /\ wCycle = Len(wPolys)
    /\ wpc' = "for"
    /\ wK' = wK + 1
    /\ wLeft' = wLeft \cup {wK}
    /\ UNCHANGED <<wStrips, wPolys, wCycle, wStart, wRet>>

\* the front piece is not split: it goes to the back of the queue
WeaveRotate ==
    /\ wpc = "while"
    /\ wCycle # Len(wPolys)
    /\ Splitted(Head(wPolys), wStrips[wK])[2] = <<>>
    /\ wPolys' = Append(Tail(wPolys), Head(wPolys))
    /\ wCycle' = wCycle + 1
    /\ UNCHANGED <<wpc, wStrips, wK, wStart, wLeft, wRet>>

\* the two pieces of the front piece, cleaned
CleanSplitted(next, strip, strips) ==
    <<CleanPoly(Splitted(next, strip)[1], strips),
      CleanPoly(Splitted(next, strip)[2], strips)>>

\* the front piece is split: refs of the later strips are set anew, the
\* pieces are cleaned and those that are kept go to the back of the queue
WeaveSplit ==
    /\ wpc = "while"
    /\ wCycle # Len(wPolys)
    /\ Splitted(Head(wPolys), wStrips[wK])[2] # <<>>
    /\ wStrips' \in RefUpdates(wStrips, wK, Len(wStrips))
    /\ wPolys' = Tail(wPolys)
                   \o KeptPieces(CleanSplitted(Head(wPolys), wStrips[wK], wStrips),
                                 HasArea(wStrips[wK]))
    /\ wCycle' = 0
    /\ wpc' = "for"
    /\ wK' = wK + 1
    /\ UNCHANGED <<wStart, wLeft, wRet>>

\* a step that splits the front piece, told by the position of the loop
\* alone: the loop goes on to the next strip without leaving this one out
WeaveSplitTaken ==
    /\ wpc = "while"
    /\ wCycle # Len(wPolys)
    /\ Splitted(Head(wPolys), wStrips[wK])[2] # <<>>
    /\ wpc' = "for"
    /\ wK' = wK + 1

\* the loop is through: the pieces become cells and CutCells returns false
WeaveEnd ==
    /\ wpc = "for"
    /\ wK > Len(wStrips)
    /\ wpc' = "done"
    /\ wRet' = "false"
    /\ UNCHANGED <<wStrips, wPolys, wK, wCycle, wStart, wLeft>>

\* ------------------------------------------------------------------------
\* The cells of one cut mesh, their OrigCellIds and their links from
\* CutCells to CombineRegions
\* ------------------------------------------------------------------------

\* the most passes of the loops of the stages after CutCells, all together
KMaxIter == 2

\* the stages of RequestData on one mesh, in their order
KStages ==
    <<"CutCells", "RestoreOrigPoints", "ResolveOverlaps", "AddAdjacentPoints",
      "DisjoinPolys", "MergePoints", "CombineRegions", "done">>

\* the stages that begin with pd->DeleteLinks(); pd->BuildLinks()
Rebuilds ==
    {"RestoreOrigPoints", "AddAdjacentPoints", "DisjoinPolys", "MergePoints",
     "CombineRegions"}

\* the stages that call pd->GetPointCells
Querying ==
    {"ResolveOverlaps", "AddAdjacentPoints", "DisjoinPolys", "MergePoints",
     "CombineRegions"}

\* the stages that end with pd->RemoveDeletedCells()
Removing == {"CutCells", "AddAdjacentPoints"}

\* the place of the points the stages insert for a contact point
KContPt == <<2, 2>>

\* the cells of the mesh that use the point p
CellsOf(mpd, p) ==
    {c \in DOMAIN mpd.polys \ mpd.deleted : p \in Range(mpd.polys[c])}

\* pd->BuildLinks() on the cut mesh: for each point the cells that use it
PdBuildLinks(mpd) == [p \in DOMAIN mpd.pts |-> CellsOf(mpd, p)]

\* pd->ReplaceCellPoint(cellId, oldPt, newPt): the links are left as they
\* are
PdReplaceCellPoint(mpd, cellId, oldPt, newPt) ==
    [mpd EXCEPT !.polys[cellId] =
        [k \in DOMAIN @ |-> IF @[k] = oldPt THEN newPt ELSE @[k]]]

\* what a call of pd->GetPointCells(p) adds to the log of the stage: the
\* call came after a change of the cells without BuildLinks, and the cells
\* it lists are not the cells that use the point
QueryLog(stage, mpd, links, dirty, p) ==
    (IF dirty THEN {<<"afterMutation", stage>>} ELSE {})
      \cup (IF links[p] # CellsOf(mpd, p) THEN {<<"stale", stage>>} ELSE {})

\* the new cells become cells of the mesh with the OrigCellId origId
RECURSIVE InsertPieces(_, _, _, _)
InsertPieces(mpd, newPolys, k, origId) ==
    IF k > Len(newPolys) THEN mpd
    ELSE InsertPieces(PdInsertNextCell(mpd, newPolys[k], origId), newPolys,
                      k + 1, origId)

\* the pieces a strip from the first vertex to a new point makes of a
\* triangle, of which the first n are of more than 2 vertices
WovenPieces(ring, d, n) ==
    SubSeq(<< <<ring[1], ring[2], d>>, <<ring[1], d, ring[3]>> >>, 1, n)

\* CutCells on a polygon with strips that is woven: the point of the
\* strip is inserted, the pieces are inserted with the OrigCellId of the
\* polygon and the polygon is deleted
WeavePieces(mpd, cellId, n) ==
    PdDeleteCell(
        InsertPieces(PdInsertNextPoint(mpd, KContPt),
                     WovenPieces(mpd.polys[cellId],
                                 Cardinality(DOMAIN mpd.pts), n),
                     1, mpd.origCellIds[cellId]),
        cellId)

\* CutCells on one polygon: it has no strips, it takes the shortcut, or n
\* pieces are left of it
CutCell(mpd, cellId, how, n) ==
    IF how = "none" THEN mpd
    ELSE IF how = "shortcut"
    THEN Shortcut(mpd, cellId, [poly |-> mpd.polys[cellId]])
    ELSE WeavePieces(mpd, cellId, n)

\* the position of the edge (a, b) in a ring, 0 if the ring has none
EdgeAt(ring, a, b) ==
    IF \E k \in DOMAIN ring : ring[k] = a /\ ring[(k % Len(ring)) + 1] = b
    THEN CHOOSE k \in DOMAIN ring :
            ring[k] = a /\ ring[(k % Len(ring)) + 1] = b
    ELSE 0

\* newPoly: the ring with the new point after a, if b follows a
NewPoly(ring, a, b, new) ==
    IF EdgeAt(ring, a, b) = 0 THEN ring
    ELSE SubSeq(ring, 1, EdgeAt(ring, a, b)) \o <<new>>
            \o SubSeq(ring, EdgeAt(ring, a, b) + 1, Len(ring))

\* the links after RemoveReferenceToCell for the points of the old cell,
\* InsertNextLinkedPoint for the new point and InsertNextLinkedCell
RelinkCell(links, ring, cellId, newRing, newCell) ==
    [p \in DOMAIN links \cup Range(newRing) |->
        ((IF p \in DOMAIN links THEN links[p] ELSE {})
            \ (IF p \in Range(ring) THEN {cellId} ELSE {}))
          \cup (IF p \in Range(newRing) THEN {newCell} ELSE {})]

\* AddAdjacentPoints on one cell: a new point is inserted if the cell has
\* the edge, the cell is deleted and newPoly inserted with its OrigCellId
RebuildCell(mpd, cellId, a, b) ==
    PdInsertNextCell(
        PdDeleteCell(IF EdgeAt(mpd.polys[cellId], a, b) = 0 THEN mpd
                     ELSE PdInsertNextPoint(mpd, KContPt), cellId),
        NewPoly(mpd.polys[cellId], a, b, Cardinality(DOMAIN mpd.pts)),
        mpd.origCellIds[cellId])

\* the loops over polysA and polysB: each cell listed for both points that
\* is not deleted is rebuilt
RECURSIVE RebuildCells(_, _, _, _, _)
RebuildCells(st, cells, j, a, b) ==
    IF j > Len(cells) THEN st
    ELSE IF cells[j] \in st.pd.deleted
    THEN RebuildCells(st, cells, j + 1, a, b)
    ELSE RebuildCells(
            [pd |-> RebuildCell(st.pd, cells[j], a, b),
             links |-> RelinkCell(st.links, st.pd.polys[cells[j]], cells[j],
                                  NewPoly(st.pd.polys[cells[j]], a, b,
                                          Cardinality(DOMAIN st.pd.pts)),
                                  Cardinality(DOMAIN st.pd.polys))],
            cells, j + 1, a, b)

\* DisjoinPolys on the cells listed for one point: each gets a new point
\* at the place of the point
RECURSIVE DisjoinListed(_, _, _, _)
DisjoinListed(mpd, p, cells, j) ==
    IF j > Len(cells) THEN mpd
    ELSE DisjoinListed(
            PdReplaceCellPoint(PdInsertNextPoint(mpd, mpd.pts[p]), cells[j],
                               p, Cardinality(DOMAIN mpd.pts)),
            p, cells, j + 1)

CellsIdle ==
    /\ kpc = "off"
    /\ kPd = NoMesh
    /\ kLinks = <<>>
    /\ kDirty = FALSE
    /\ kIter = 0
    /\ kSeen = {}
    /\ kLog = {}

\* the cleaned mesh before CutCells: no links are built
CellsInit ==
    /\ kpc = "CutCells"
    /\ kPd = NewModPd(MeshTA)
    /\ kLinks = <<>>
    /\ kDirty = TRUE
    /\ kIter = 0
    /\ kSeen = {}
    /\ kLog = {}

\* CutCells on the next polygon of the mesh
KCutCell ==
    /\ kpc = "CutCells"
    /\ kIter < Cardinality(DOMAIN MeshTA.polys)
    /\ \E how \in {"none", "shortcut", "weave"}, n \in 0..2 :
          /\ how # "weave" => n = 0
          /\ kPd' = CutCell(kPd, kIter, how, n)
    /\ kIter' = kIter + 1
    /\ kDirty' = TRUE
    /\ UNCHANGED <<kpc, kLinks, kSeen, kLog>>

\* the stage returns and the next one begins: RemoveDeletedCells at the
\* end of CutCells and AddAdjacentPoints, BuildLinks at the begin of the
\* stages that call it
KNextStage ==
    /\ kpc \in Range(KStages) \ {"done"}
    /\ kpc = "CutCells" => kIter = Cardinality(DOMAIN MeshTA.polys)
    /\ \E i \in 1..Len(KStages) - 1 :
          /\ kpc = KStages[i]
          /\ kpc' = KStages[i + 1]
          /\ kLinks' = IF KStages[i + 1] \in Rebuilds
                       THEN PdBuildLinks(kPd) ELSE kLinks
          /\ kDirty' = IF KStages[i + 1] \in Rebuilds THEN FALSE
                       ELSE (kDirty \/ kpc \in Removing)
          /\ kLog' = kLog \cup (IF KStages[i + 1] \in Querying \ Rebuilds
                                THEN {<<"noRebuild", KStages[i + 1]>>}
                                ELSE {})
    /\ kPd' = IF kpc \in Removing THEN [kPd EXCEPT !.removed = TRUE] ELSE kPd
    /\ kIter' = IF kpc = "CutCells" THEN 0 ELSE kIter
    /\ kSeen' = {}

\* ResolveOverlaps on one contact point: the cells of the vertex edgeA[1]
\* are asked for, and in the first of them that holds the two places the
\* vertex is replaced by a new point
KResolveOverlap ==
    /\ kpc = "ResolveOverlaps"
    /\ kIter < KMaxIter
    /\ \E v \in DOMAIN MeshTA.pts :
          /\ kLog' = kLog \cup QueryLog(kpc, kPd, kLinks, kDirty, v)
          /\ \/ UNCHANGED <<kPd, kDirty>>
             \/ \E c \in kLinks[v] :
                   /\ kPd' = PdReplaceCellPoint(
                                PdInsertNextPoint(kPd, KContPt), c, v,
                                Cardinality(DOMAIN kPd.pts))
                   /\ kDirty' = TRUE
    /\ kIter' = kIter + 1
    /\ UNCHANGED <<kpc, kLinks, kSeen>>

\* AddAdjacentPoints on one part of an edge: the cells of its two ends are
\* asked for and the cells listed for both are rebuilt
KAddAdjacent ==
    /\ kpc = "AddAdjacentPoints"
    /\ kIter < KMaxIter
    /\ \E a, b \in DOMAIN MeshTA.pts :
          /\ a # b
          /\ kLog' = kLog \cup QueryLog(kpc, kPd, kLinks, kDirty, a)
                          \cup QueryLog(kpc, kPd, kLinks, kDirty, b)
          /\ kPd' = RebuildCells([pd |-> kPd, links |-> kLinks],
                                 SetToSeq(kLinks[a] \cap kLinks[b]), 1, a, b).pd
          /\ kLinks' = RebuildCells([pd |-> kPd, links |-> kLinks],
                                    SetToSeq(kLinks[a] \cap kLinks[b]), 1, a, b).links
          /\ kDirty' = (kDirty \/ kLinks[a] \cap kLinks[b] # {})
    /\ kIter' = kIter + 1
    /\ UNCHANGED <<kpc, kSeen>>

\* DisjoinPolys on one point at the place of an end: its cells are asked
\* for and, if they are more than one, each gets a point of its own
KDisjoin ==
    /\ kpc = "DisjoinPolys"
    /\ kIter < KMaxIter
    /\ \E p \in DOMAIN kLinks \ kSeen :
          /\ kPd.pts[p] \in Range(MeshTA.pts)
          /\ kLog' = kLog \cup QueryLog(kpc, kPd, kLinks, kDirty, p)
          /\ kSeen' = kSeen \cup {p}
          /\ IF Cardinality(kLinks[p]) > 1
             THEN /\ kPd' = DisjoinListed(kPd, p, SetToSeq(kLinks[p]), 1)
                  /\ kDirty' = TRUE
             ELSE UNCHANGED <<kPd, kDirty>>
    /\ kIter' = kIter + 1
    /\ UNCHANGED <<kpc, kLinks>>

\* MergePoints on the points at the place of one contact point: the cells
\* of two of them are asked for, and in the first cell of the one the
\* other takes its place
KMerge ==
    /\ kpc = "MergePoints"
    /\ kIter < KMaxIter
    /\ \E f, g \in DOMAIN kLinks \ kSeen :
          /\ f < g
          /\ kPd.pts[f] = kPd.pts[g]
          /\ kLinks[f] # {} /\ kLinks[g] # {}
          /\ kLog' = kLog \cup QueryLog(kpc, kPd, kLinks, kDirty, f)
                          \cup QueryLog(kpc, kPd, kLinks, kDirty, g)
          /\ kSeen' = kSeen \cup {q \in DOMAIN kLinks : kPd.pts[q] = kPd.pts[f]}
          /\ kPd' = PdReplaceCellPoint(kPd, SetToSeq(kLinks[g])[1], g, f)
    /\ kDirty' = TRUE
    /\ kIter' = kIter + 1
    /\ UNCHANGED <<kpc, kLinks>>

\* GetEdgePolys in CombineRegions: the cells of a point are asked for
KEdgePolys ==
    /\ kpc = "CombineRegions"
    /\ kIter < KMaxIter
    /\ \E p \in DOMAIN kLinks :
          kLog' = kLog \cup QueryLog(kpc, kPd, kLinks, kDirty, p)
    /\ kIter' = kIter + 1
    /\ UNCHANGED <<kpc, kPd, kLinks, kDirty, kSeen>>

\* ------------------------------------------------------------------------
\* Specifications
\* ------------------------------------------------------------------------

Init == DrvInit /\ CombIdle /\ DisjIdle /\ StripsIdle /\ UnitsIdle /\ WeaveIdle
           /\ CellsIdle

\* the caller's steps and the stages of RequestData
Next ==
    \/ SetOperMode /\ UNCHANGED <<combVars, disjVars, stripVars, unitVars,
                 weaveVars, cellVars>>
    \/ ModifyA /\ UNCHANGED <<combVars, disjVars, stripVars, unitVars,
                 weaveVars, cellVars>>
    \/ ModifyB /\ UNCHANGED <<combVars, disjVars, stripVars, unitVars,
                 weaveVars, cellVars>>
    \/ Begin /\ UNCHANGED <<combVars, disjVars, stripVars, unitVars,
                 weaveVars, cellVars>>
    \/ PreventEqualCaptPoints /\ UNCHANGED <<combVars, disjVars, stripVars, unitVars,
                 weaveVars, cellVars>>
    \/ Contact /\ UNCHANGED <<combVars, disjVars, stripVars, unitVars,
                 weaveVars, cellVars>>
    \/ DegreeCheck /\ UNCHANGED <<combVars, disjVars, stripVars, unitVars,
                 weaveVars, cellVars>>
    \/ GetPolyStripsA /\ UNCHANGED <<combVars, disjVars, stripVars, unitVars,
                 weaveVars, cellVars>>
    \/ GetPolyStripsB /\ UNCHANGED <<combVars, disjVars, stripVars, unitVars,
                 weaveVars, cellVars>>
    \/ CleanStrips /\ UNCHANGED <<combVars, disjVars, stripVars, unitVars,
                 weaveVars, cellVars>>
    \/ CutCellsA /\ UNCHANGED <<combVars, disjVars, stripVars, unitVars,
                 weaveVars, cellVars>>
    \/ CutCellsB /\ UNCHANGED <<combVars, disjVars, stripVars, unitVars,
                 weaveVars, cellVars>>
    \/ VoidStage /\ UNCHANGED <<combVars, disjVars, stripVars, unitVars,
                 weaveVars, cellVars>>
    \/ CombineRegions /\ UNCHANGED <<combVars, disjVars, stripVars, unitVars,
                 weaveVars, cellVars>>

Spec == Init /\ [][Next]_vars

InitCombine == DrvIdle /\ CombInit /\ DisjIdle /\ StripsIdle /\ UnitsIdle /\ WeaveIdle
           /\ CellsIdle

NextCombine ==
    \/ CombEntry /\ UNCHANGED <<drvVars, disjVars, stripVars, unitVars,
                 weaveVars, cellVars>>
    \/ CombLine /\ UNCHANGED <<drvVars, disjVars, stripVars, unitVars,
                 weaveVars, cellVars>>
    \/ CombEmplaceFA /\ UNCHANGED <<drvVars, disjVars, stripVars, unitVars,
                 weaveVars, cellVars>>
    \/ CombEmplaceLA /\ UNCHANGED <<drvVars, disjVars, stripVars, unitVars,
                 weaveVars, cellVars>>
    \/ CombEmplaceFB /\ UNCHANGED <<drvVars, disjVars, stripVars, unitVars,
                 weaveVars, cellVars>>
    \/ CombEmplaceLB /\ UNCHANGED <<drvVars, disjVars, stripVars, unitVars,
                 weaveVars, cellVars>>
    \/ CombSelect /\ UNCHANGED <<drvVars, disjVars, stripVars, unitVars,
                 weaveVars, cellVars>>

SpecCombine == InitCombine /\ [][NextCombine]_vars

InitDisjoin == DrvIdle /\ CombIdle /\ DisjInit /\ StripsIdle /\ UnitsIdle /\ WeaveIdle
           /\ CellsIdle

NextDisjoin == DisjoinPolys /\ UNCHANGED <<drvVars, combVars, stripVars, unitVars,
                 weaveVars, cellVars>>

SpecDisjoin == InitDisjoin /\ [][NextDisjoin]_vars

InitStrips == DrvIdle /\ CombIdle /\ DisjIdle /\ StripsInit /\ UnitsIdle /\ WeaveIdle
           /\ CellsIdle

NextStrips ==
    \/ CheckContLines /\ UNCHANGED <<drvVars, combVars, disjVars, unitVars,
                 weaveVars, cellVars>>
    \/ RunGetPolyStripsA /\ UNCHANGED <<drvVars, combVars, disjVars, unitVars,
                 weaveVars, cellVars>>
    \/ RunGetPolyStripsB /\ UNCHANGED <<drvVars, combVars, disjVars, unitVars,
                 weaveVars, cellVars>>
    \/ RunCleanStrips /\ UNCHANGED <<drvVars, combVars, disjVars, unitVars,
                 weaveVars, cellVars>>
    \/ RunCutCellsA /\ UNCHANGED <<drvVars, combVars, disjVars, unitVars,
                 weaveVars, cellVars>>
    \/ RunCutCellsB /\ UNCHANGED <<drvVars, combVars, disjVars, unitVars,
                 weaveVars, cellVars>>

SpecStrips == InitStrips /\ [][NextStrips]_vars

InitWeave == DrvIdle /\ CombIdle /\ DisjIdle /\ StripsIdle /\ UnitsIdle
             /\ WeaveInit /\ CellsIdle

NextWeave ==
    \/ WeaveFor /\ UNCHANGED <<drvVars, combVars, disjVars, stripVars, unitVars, cellVars>>
    \/ WeaveBreak /\ UNCHANGED <<drvVars, combVars, disjVars, stripVars, unitVars, cellVars>>
    \/ WeaveRotate /\ UNCHANGED <<drvVars, combVars, disjVars, stripVars, unitVars, cellVars>>
    \/ WeaveSplit /\ UNCHANGED <<drvVars, combVars, disjVars, stripVars, unitVars, cellVars>>
    \/ WeaveEnd /\ UNCHANGED <<drvVars, combVars, disjVars, stripVars, unitVars, cellVars>>

\* CutCells runs in one thread and every pass of its loops is a step the
\* program takes: a step that can be taken is taken
SpecWeave ==
    /\ InitWeave
    /\ [][NextWeave]_vars
    /\ WF_weaveVars(WeaveFor \/ WeaveBreak \/ WeaveRotate \/ WeaveEnd)
    /\ WF_<<wpc, wK>>(WeaveSplitTaken)

InitCells == DrvIdle /\ CombIdle /\ DisjIdle /\ StripsIdle /\ UnitsIdle
             /\ WeaveIdle /\ CellsInit

NextCells ==
    \/ KCutCell /\ UNCHANGED <<drvVars, combVars, disjVars, stripVars, unitVars,
                 weaveVars>>
    \/ KNextStage /\ UNCHANGED <<drvVars, combVars, disjVars, stripVars, unitVars,
                 weaveVars>>
    \/ KResolveOverlap /\ UNCHANGED <<drvVars, combVars, disjVars, stripVars, unitVars,
                 weaveVars>>
    \/ KAddAdjacent /\ UNCHANGED <<drvVars, combVars, disjVars, stripVars, unitVars,
                 weaveVars>>
    \/ KDisjoin /\ UNCHANGED <<drvVars, combVars, disjVars, stripVars, unitVars,
                 weaveVars>>
    \/ KMerge /\ UNCHANGED <<drvVars, combVars, disjVars, stripVars, unitVars,
                 weaveVars>>
    \/ KEdgePolys /\ UNCHANGED <<drvVars, combVars, disjVars, stripVars, unitVars,
                 weaveVars>>

SpecCells == InitCells /\ [][NextCells]_vars

\* the StripPts an end of a strip that CutCells keeps can have: on a
\* vertex, on an edge or Branched, on one of two edges of the ring
EndPts ==
    [capt : {"A"}, edge : {<<0, 1>>, <<1, 2>>}, t : {<<0, 1>>}]
       \cup [capt : {"Edge"}, edge : {<<0, 1>>, <<1, 2>>},
             t : {<<1, 4>>, <<2, 4>>, <<3, 4>>}]
       \cup [capt : {"Branched"}, edge : {<<NOTSET, NOTSET>>}, t : {<<0, 1>>}]

\* the inputs: a strip with the captures of its two ends (the points between
\* them are of capture None), or the contact lines of one polygon with the
\* captures of their ends, or the labels computed one after the other
\* for the regions of a mesh, or the PolyAtEdge of one contact line under
\* one of the four operators
InitUnits ==
    /\ DrvIdle /\ CombIdle /\ DisjIdle /\ StripsIdle /\ WeaveIdle /\ CellsIdle
    /\ \/ /\ upc = "strip"
          /\ uRes = NOTSET
          /\ \E n \in 1..MaxStripLen : \E f \in [1..n -> 0..MaxInd] :
                uStrip = [k \in 1..n |-> [ind |-> f[k]]]
          /\ \E captStart, captEnd \in {"Not", "Edge", "Branched"} :
                /\ uStrip[1].ind = uStrip[Len(uStrip)].ind
                      => captEnd = captStart
                /\ uPts = [i \in 0..MaxInd |->
                            [ind |-> i,
                             capt |-> IF i = uStrip[1].ind THEN captStart
                                      ELSE IF i = uStrip[Len(uStrip)].ind
                                      THEN captEnd
                                      ELSE "Not"]]
          /\ uMode = "NONE"
          /\ uPolys = <<>>
       \/ /\ upc = "kept"
          /\ uMode = "NONE"
          /\ uPolys = <<>>
          /\ uRes = NOTSET
          /\ \E n \in 2..MaxBundle : \E f \in [1..n -> 0..MaxBundle - 1] :
                uStrip = [k \in 1..n |-> [ind |-> f[k]]]
          /\ \E ends \in [{uStrip[1].ind, uStrip[Len(uStrip)].ind} -> EndPts] :
                /\ \E i \in DOMAIN ends : ends[i].capt # "Branched"
                /\ uPts = [i \in 0..MaxBundle - 1 |->
                            IF i \in DOMAIN ends
                            THEN [ind |-> i, capt |-> ends[i].capt,
                                  edge |-> ends[i].edge, t |-> ends[i].t]
                            ELSE [ind |-> i, capt |-> "Not",
                                  edge |-> <<NOTSET, NOTSET>>, t |-> <<0, 1>>]]
       \/ /\ upc = "lines"
          /\ uStrip = <<>>
          /\ uMode = "NONE"
          /\ uRes = NOTSET
          /\ \E n \in 1..MaxBundle, swap \in BOOLEAN :
             \E c \in [1..n -> {e \in (0..MaxBundle - 1) \X (0..MaxBundle - 1) :
                                    e[1] < e[2]}] :
                uPolys = [k \in 1..n |->
                            IF swap THEN [f |-> c[k][2], g |-> c[k][1]]
                                    ELSE [f |-> c[k][1], g |-> c[k][2]]]
          /\ \E onEdge \in SUBSET ({uPolys[k].f : k \in DOMAIN uPolys}
                                    \cup {uPolys[k].g : k \in DOMAIN uPolys}) :
                uPts = [i \in 0..MaxInd |->
                          MarkBranched([ind |-> i,
                                        capt |-> IF i \in onEdge THEN "Edge"
                                                 ELSE "Not"],
                                       Len(SelectSeq(
                                          LinePairs(uPolys, RemoveDuplicates(uPolys,
                                              [k \in DOMAIN uPolys |-> k])),
                                          LAMBDA l : i \in {l[1], l[2]})))]
       \/ /\ upc = "labels"
          /\ uStrip = <<>>
          /\ uPts = <<>>
          /\ uMode = "NONE"
          /\ \E n \in 1..MaxLabels :
                uPolys \in [1..n -> [region : 0..MaxRegions - 1, loc : Locs]]
          /\ uRes = [locs |-> EmptyMap, k |-> 0]
       \/ /\ upc = "polys"
          /\ uStrip = <<>>
          /\ uPts = <<>>
          /\ uMode \in Modes \ {"NONE"}
          /\ \E thAA, thAB, thBA, thBB \in 0..Dirs - 1 :
             \E sAA, sAB, sBA, sBB \in {1, -1} :
                /\ thAA # thAB
                /\ thBA # thBB
                /\ uPolys = [ppA |-> [pA |-> PolyAtEdge(thAA, sAA),
                                   pB |-> PolyAtEdge(thAB, sAB)],
                             ppB |-> [pA |-> PolyAtEdge(thBA, sBA),
                                      pB |-> PolyAtEdge(thBB, sBB)]]
          /\ uRes = uPolys

NextUnits ==
    \/ RunHasArea /\ UNCHANGED <<drvVars, combVars, disjVars, stripVars,
                 weaveVars, cellVars>>
    \/ RunCompleteStrips /\ UNCHANGED <<drvVars, combVars, disjVars, stripVars,
                 weaveVars, cellVars>>
    \/ RunGetLoc /\ UNCHANGED <<drvVars, combVars, disjVars, stripVars,
                 weaveVars, cellVars>>
    \/ RunEmplace /\ UNCHANGED <<drvVars, combVars, disjVars, stripVars,
                 weaveVars, cellVars>>
    \/ RunAssemble /\ UNCHANGED <<drvVars, combVars, disjVars, stripVars,
                 weaveVars, cellVars>>
    \/ RunInitStrip /\ UNCHANGED <<drvVars, combVars, disjVars, stripVars,
                 weaveVars, cellVars>>

SpecUnits == InitUnits /\ [][NextUnits]_vars

\* ------------------------------------------------------------------------
\* Properties of CombineRegions (SpecCombine)
\* ------------------------------------------------------------------------

\* the selection has been made: CombineRegions returned without failure
\* under one of the four operators
Selected == cpc = "done" /\ cret = FALSE /\ cmode # "NONE"

\* the labels the specification wants in A and in B
Targets ==
    [m \in Modes \ {"NONE"} |->
        CASE m = "UNION"        -> <<"Outside", "Outside">>
          [] m = "INTERSECTION" -> <<"Inside", "Inside">>
          [] m = "DIFFERENCE"   -> <<"Outside", "Inside">>
          [] m = "DIFFERENCE2"  -> <<"Inside", "Outside">>]

\* C1: the labels wanted in A and in B depend on the operator only, as the
\* table Targets gives them, and a region with a recorded label is put in
\* the output iff that label is the one wanted in its mesh.
C1_ClassifiedRegions ==
    Selected =>
        /\ <<CombA(cmode), CombB(cmode)>> = Targets[cmode]
        /\ \A r \in DOMAIN locsA :
              r \in selA <=> locsA[r] = Targets[cmode][1]
        /\ \A r \in DOMAIN locsB :
              r \in selB <=> locsB[r] = Targets[cmode][2]

\* a selection under DIFFERENCE in which each mesh has a classified region
\* that is put in the output and one that is not
C1_Witness ==
    /\ Selected /\ cmode = "DIFFERENCE"
    /\ \E r, q \in DOMAIN locsA : r \in selA /\ q \notin selA
    /\ \E r, q \in DOMAIN locsB : r \in selB /\ q \notin selB

\* C2: a region without a recorded label is put in the output exactly when
\* it is a region of A under UNION or DIFFERENCE, or a region of B under
\* UNION or DIFFERENCE2.
C2_UnclassifiedRegions ==
    Selected =>
        /\ \A r \in (0..numA - 1) \ DOMAIN locsA :
              r \in selA <=> cmode \in {"UNION", "DIFFERENCE"}
        /\ \A r \in (0..numB - 1) \ DOMAIN locsB :
              r \in selB <=> cmode \in {"UNION", "DIFFERENCE2"}

\* a selection under DIFFERENCE2 with an unclassified region of A, which
\* is left out, and an unclassified region of B, which is put in
C2_Witness ==
    /\ Selected /\ cmode = "DIFFERENCE2"
    /\ \E r \in (0..numA - 1) \ DOMAIN locsA : r \notin selA
    /\ \E r \in (0..numB - 1) \ DOMAIN locsB : r \in selB
    /\ DOMAIN locsA # {} /\ DOMAIN locsB # {}

\* ------------------------------------------------------------------------
\* Properties of the driver (Spec)
\* ------------------------------------------------------------------------

\* the stages that report each error
StagesOf(msg) ==
    CASE msg = "Cannot prevent equal capture points."
            -> {"PreventEqualCaptPoints"}
      [] msg = "Contact failed with" -> {"Contact"}
      [] msg = "There is no contact." -> {"Contact", "CleanStrips"}
      [] msg = "At least one line-end has only one neighbor."
            -> {"DegreeCheck"}
      [] msg = "Strips are invalid." -> {"GetPolyStripsA", "GetPolyStripsB"}
      [] msg = "CutCells failed." -> {"CutCellsA", "CutCellsB"}
      [] msg = "Boolean operation failed." -> {"CombineRegions"}
      [] OTHER -> {}

\* C3: once a stage has reported an error, the invocation has returned,
\* the reporting stage is the last one it executed, and it has written
\* none of the three outputs.
C3_ErrorsAreFatal ==
    err # NoErr =>
        /\ pc = "returned"
        /\ ran # <<>>
        /\ ran[Len(ran)] \in StagesOf(err)
        /\ written = {}

\* an invocation that failed in CombineRegions, the last stage
C3_Witness ==
    /\ err = "Boolean operation failed."
    /\ ran[Len(ran)] = "CombineRegions"
    /\ modPd = "cut"

\* C4: on every error path the return value differs from the one of a
\* successful run.
C4_FailureReturnDiffers ==
    (pc = "returned" /\ err # NoErr) => ret # RetSuccess

\* the contact curve of the invocation has no line, or CleanStrips has
\* marked every line deleted
NoContact ==
    \/ /\ "Contact" \in Range(ran)
       /\ err # "Contact failed with"
       /\ numLines = 0
    \/ /\ "CleanStrips" \in Range(ran)
       /\ numDeleted = numLines

\* C5: under every operator mode, when the contact curve has no line or
\* CleanStrips has marked every line deleted, the invocation has ended
\* with "There is no contact.", without CutCells and without
\* CombineRegions, where the operator mode is read.
C5_NoContactAborts ==
    NoContact =>
        /\ pc = "returned"
        /\ err = "There is no contact."
        /\ Range(ran) \cap {"CutCellsA", "CutCellsB", "CombineRegions"} = {}
        /\ written = {}

\* under NONE, CleanStrips has marked every line of the curve deleted
C5_Witness ==
    /\ OperMode = "NONE"
    /\ ran # <<>> /\ ran[Len(ran)] = "CleanStrips"
    /\ numLines > 0 /\ numDeleted = numLines
    /\ err = "There is no contact."

\* ------------------------------------------------------------------------
\* Properties of DisjoinPolys (SpecDisjoin)
\* ------------------------------------------------------------------------

\* the cells of a mesh that use a point
CellsAt(mesh, p) == {c \in DOMAIN mesh.cells : p \in Range(mesh.cells[c])}

\* C10: after DisjoinPolys, at the place of every StripPoint of capture A
\* no mesh point is used by two cells, and every cell that used a shared
\* point there uses a point of its own instead that DisjoinPolys added.
C10_DisjointAtCaptA ==
    dpc = "done" =>
        \A k \in DOMAIN ends0 :
            ends0[k].capt = "A" =>
                /\ \A p \in DOMAIN pd.pts :
                      pd.pts[p] = ends0[k].pt =>
                          Cardinality(CellsAt(pd, p)) <= 1
                /\ \A p \in DOMAIN pd0.pts :
                      (pd0.pts[p] = ends0[k].pt
                          /\ Cardinality(CellsAt(pd0, p)) > 1) =>
                          \A c \in CellsAt(pd0, p) :
                              \E i \in DOMAIN pd0.cells[c] :
                                  /\ pd0.cells[c][i] = p
                                  /\ pd.cells[c][i] > Len(pd0.pts)
                                  /\ pd.pts[pd.cells[c][i]] = ends0[k].pt

\* DisjoinPolys has run on a mesh in which two cells shared a point at the
\* place of a StripPoint of capture A
C10_Witness ==
    /\ dpc = "done"
    /\ \E k \in DOMAIN ends0, p \in DOMAIN pd0.pts :
          /\ ends0[k].capt = "A"
          /\ pd0.pts[p] = ends0[k].pt
          /\ Cardinality(CellsAt(pd0, p)) > 1
    /\ Len(pd.pts) > Len(pd0.pts)

\* ------------------------------------------------------------------------
\* Properties of the strip stages (SpecStrips)
\* ------------------------------------------------------------------------

\* the number of lines not marked deleted that end at a contact point
Degree(cells, ind) ==
    Cardinality({k \in DOMAIN cells :
        ~ cells[k].del /\ (cells[k].f = ind \/ cells[k].g = ind)})

\* C6: once CleanStrips has returned without error, each end of each line
\* that is not marked deleted is an end of at least two lines that are not
\* marked deleted.
C6_DegreeAfterCleanStrips ==
    spc = "CutCells" =>
        \A k \in DOMAIN contLines :
            ~ contLines[k].del =>
                /\ Degree(contLines, contLines[k].f) >= 2
                /\ Degree(contLines, contLines[k].g) >= 2

\* two boundary-captured StripPts of one polygon with different contact
\* points and the same cutPt
EqualCutPtsIn(polyStrips) ==
    \E poly \in DOMAIN polyStrips :
        \E i, j \in DOMAIN polyStrips[poly].pts :
            /\ i # j
            /\ polyStrips[poly].pts[i].capt \in Boundary
            /\ polyStrips[poly].pts[j].capt \in Boundary
            /\ polyStrips[poly].pts[i].cutPt = polyStrips[poly].pts[j].cutPt

\* C7: when two boundary-captured StripPts of one polygon with different
\* contact points have the same cutPt, GetPolyStrips has returned failure
\* and the invocation has ended with "Strips are invalid." before CutCells.
C7_EqualCutPtsAbort ==
    (EqualCutPtsIn(polyStripsA) \/ EqualCutPtsIn(polyStripsB)) =>
        spc = "returned" /\ serr = "Strips are invalid."

\* the source the contact provider declared for a StripPt of a bundle
DeclaredSource(cells, which, poly, ind) ==
    AllPts(LineEnds(cells, PolyLines(cells, which)[poly], which))[ind]

\* every StripPt of the bundles with a declared source is caught, of
\* capture A and with its edge set
SourcesCaught(polyStrips, cells, which) ==
    \A poly \in DOMAIN polyStrips :
        \A ind \in DOMAIN polyStrips[poly].pts :
            DeclaredSource(cells, which, poly, ind) # NOTSET =>
                /\ polyStrips[poly].pts[ind].catched
                /\ polyStrips[poly].pts[ind].capt = "A"
                /\ polyStrips[poly].pts[ind].edge[1] # NOTSET

\* C8: after the local localisation and the fall-back lookup every StripPt
\* with a declared source is caught, of capture A and with its edge set,
\* and assert(sp.catched) does not fail.
C8_DeclaredSourcesCaught ==
    /\ spc # "aborted"
    /\ SourcesCaught(polyStripsA, contLines, "A")
    /\ SourcesCaught(polyStripsB, contLines, "B")

\* the captures of the two ends of a strip
EndCapts(pStrips, s) ==
    <<pStrips.pts[pStrips.strips[s][1].ind].capt,
      pStrips.pts[pStrips.strips[s][Len(pStrips.strips[s])].ind].capt>>

\* the captures of the ends of all strips of the bundles of a mesh
AllEndCapts(polyStrips) ==
    UNION {{EndCapts(polyStrips[poly], s) :
                s \in DOMAIN polyStrips[poly].strips} :
           poly \in DOMAIN polyStrips}

\* C9 as the specification states it: the ends of every strip are both
\* boundary-captured, or both of capture None, or exactly one of them is
\* Branched; never one boundary-captured and one None, never two Branched.
C9_EndCaptsAsStated ==
    \A e \in AllEndCapts(polyStripsA) \cup AllEndCapts(polyStripsB) :
        /\ \/ e[1] \in Boundary /\ e[2] \in Boundary
           \/ e[1] = "Not" /\ e[2] = "Not"
           \/ (e[1] = "Branched") # (e[2] = "Branched")
        /\ ~ (e[1] \in Boundary /\ e[2] = "Not")
        /\ ~ (e[1] = "Not" /\ e[2] \in Boundary)
        /\ ~ (e[1] = "Branched" /\ e[2] = "Branched")

\* C9: the ends of every assembled and completed strip are both
\* boundary-captured, or both of capture None, or one Branched and one
\* boundary-captured, or both Branched; no strip has exactly one end of
\* capture None.
C9_EndCapts ==
    \A e \in AllEndCapts(polyStripsA) \cup AllEndCapts(polyStripsB) :
        \/ e[1] \in Boundary /\ e[2] \in Boundary
        \/ e[1] = "Not" /\ e[2] = "Not"
        \/ e[1] = "Branched" /\ e[2] \in Boundary
        \/ e[1] \in Boundary /\ e[2] = "Branched"
        \/ e[1] = "Branched" /\ e[2] = "Branched"

\* a strip that CompleteStrips made run forth and back between two equal
\* ends
Doubled(strip) ==
    /\ Len(strip) >= 3
    /\ Len(strip) % 2 = 1
    /\ \A k \in DOMAIN strip : strip[k].ind = strip[Len(strip) + 1 - k].ind

\* GetPolyStrips has succeeded on mesh A with every StripPt caught, and
\* CompleteStrips has turned a strip from a Branched point to a point of
\* capture None into one with two Branched ends
C9_Witness ==
    /\ spc = "GetPolyStripsB"
    /\ ~ AssertFails(polyStripsA)
    /\ \E poly \in DOMAIN polyStripsA :
          \E s \in DOMAIN polyStripsA[poly].strips :
              /\ Doubled(polyStripsA[poly].strips[s])
              /\ EndCapts(polyStripsA[poly], s) = <<"Branched", "Branched">>


\* --- C11, C20: CutCells

\* the case of a bundle whose points all lie on vertices of the polygon
\* and cover them
ShortcutCase(mpd, pStrips) ==
    /\ \A ind \in DOMAIN pStrips.pts : pStrips.pts[ind].capt \in {"A", "B"}
    /\ {pStrips.pts[ind].cutPt : ind \in DOMAIN pStrips.pts}
          = {mpd.pts[pStrips.poly[k]] : k \in DOMAIN pStrips.poly}

\* CutCells came to the polygon: it did not return at an earlier one
CameTo(poly, at) == at = NOTSET \/ poly <= at

\* the polygon was replaced by one copy of itself on new points
CopiedOnce(old, new, poly) ==
    /\ Cardinality({c \in DOMAIN new.polys \ DOMAIN old.polys :
                      new.origCellIds[c] = old.origCellIds[poly]}) = 1
    /\ \A c \in DOMAIN new.polys \ DOMAIN old.polys :
          new.origCellIds[c] = old.origCellIds[poly] =>
             /\ Len(new.polys[c]) = Len(old.polys[poly])
             /\ \A k \in DOMAIN old.polys[poly] :
                   /\ new.pts[new.polys[c][k]] = old.pts[old.polys[poly][k]]
                   /\ new.polys[c][k] \notin DOMAIN old.pts
             /\ Cardinality(Range(new.polys[c])) = Len(new.polys[c])
    /\ poly \in new.deleted
    /\ poly \notin new.woven
    /\ new.polys[poly] = old.polys[poly]

ShortcutTaken(old, new, polyStrips, at) ==
    \A poly \in DOMAIN polyStrips :
        ShortcutCase(old, polyStrips[poly]) /\ CameTo(poly, at)
           => CopiedOnce(old, new, poly)

\* C11: a polygon whose strip points are all captured on vertices and
\* whose cut points are exactly its vertices is replaced in CutCells by
\* one new polygon with the same number of vertices, the same coordinates
\* in the same ring order, new point ids and the same OrigCellId; the
\* polygon is marked deleted and is not cut along strips
C11_ShortcutCopiesPolygon ==
    [][/\ (spc = "CutCells" /\ spc' # spc)
            => ShortcutTaken(modPdA, modPdA', polyStripsA, polyInd')
       /\ (spc = "CutCellsB" /\ spc' # spc)
            => ShortcutTaken(modPdB, modPdB', polyStripsB, polyInd')]_vars

C11_Witness ==
    /\ spc = "CutCellsB"
    /\ \E poly \in DOMAIN polyStripsA :
          /\ ShortcutCase(modPdA, polyStripsA[poly])
          /\ poly \in modPdA.deleted
          /\ \E c \in DOMAIN modPdA.polys :
                c \notin modPdA.deleted /\ modPdA.origCellIds[c] = poly

\* a strip of the bundle runs from a Branched point to a Branched point
BranchedStrip(pStrips) ==
    \E s \in DOMAIN pStrips.strips :
        {pStrips.pts[pStrips.strips[s][k].ind].capt :
            k \in {1, Len(pStrips.strips[s])}} = {"Branched"}

\* the number of points CutCells inserts for the polygons before poly
RECURSIVE PointsBefore(_, _, _)
PointsBefore(old, polyStrips, polys) ==
    IF polys = {} THEN 0
    ELSE LET q == CHOOSE q \in polys : TRUE
         IN (IF ShortcutCase(old, polyStrips[q])
             THEN Len(polyStrips[q].poly)
             ELSE Len(DescPts(polyStrips[q], 1)))
            + PointsBefore(old, polyStrips, polys \ {q})

FailsAtBranched(old, new, polyStrips, at, pos, msg) ==
    \A poly \in DOMAIN polyStrips :
        (/\ ~ShortcutCase(old, polyStrips[poly])
         /\ BranchedStrip(polyStrips[poly])
         /\ CameTo(poly, at))
        => /\ at = poly
           /\ pos = "returned"
           /\ msg = "CutCells failed."
           /\ poly \notin new.deleted
           /\ poly \notin new.woven
           /\ new.polys = old.polys
           /\ new.deleted = {q \in DOMAIN polyStrips : q < poly}
           /\ Cardinality(DOMAIN new.pts)
                 = Cardinality(DOMAIN old.pts)
                   + PointsBefore(old, polyStrips,
                                  {q \in DOMAIN polyStrips : q < poly})
           /\ ~new.removed

C12_OneOrigCellId ==
    (cpc = "done" /\ cret = FALSE /\ cmode # "NONE") =>
        /\ DOMAIN newOrigCellIdsA = DOMAIN resCells
        /\ DOMAIN newOrigCellIdsB = DOMAIN resCells
        /\ \A i \in DOMAIN resCells :
              /\ (newOrigCellIdsA[i] = -1) # (newOrigCellIdsB[i] = -1)
              /\ resCells[i].mesh = "A" =>
                    /\ newOrigCellIdsA[i] = resCells[i].poly
                    /\ newOrigCellIdsB[i] = -1
              /\ resCells[i].mesh = "B" =>
                    /\ newOrigCellIdsB[i] = resCells[i].poly
                    /\ newOrigCellIdsA[i] = -1

C12_Witness ==
    /\ cpc = "done"
    /\ cret = FALSE
    /\ cmode = "UNION"
    /\ \E i, j \in DOMAIN resCells :
          /\ resCells[i].mesh = "A" /\ resCells[i].poly = 3
          /\ resCells[j].mesh = "B" /\ resCells[j].poly = 0

\* the cells of the result that were reversed
ReversedCells ==
    {i \in DOMAIN resCells :
        \/ resCells[i].mesh = "A" /\ resCells[i].region \in revA
        \/ resCells[i].mesh = "B" /\ resCells[i].region \in revB}

\* the cells whose region was selected for its label Inside
SelectedInside ==
    {i \in DOMAIN resCells :
        \/ /\ resCells[i].mesh = "A"
           /\ resCells[i].region \in DOMAIN locsA
           /\ locsA[resCells[i].region] = "Inside"
        \/ /\ resCells[i].mesh = "B"
           /\ resCells[i].region \in DOMAIN locsB
           /\ locsB[resCells[i].region] = "Inside"}

CellsOfMesh(mesh) == {i \in DOMAIN resCells : resCells[i].mesh = mesh}

\* C14: a polygon of the result is reversed iff the mode is not
\* INTERSECTION and its region was selected for its label Inside; under
\* UNION and INTERSECTION none is reversed, under DIFFERENCE exactly the
\* polygons of B, under DIFFERENCE2 exactly the polygons of A
C14_ReversedPolygons ==
    (cpc = "done" /\ cret = FALSE /\ cmode # "NONE") =>
        /\ ReversedCells =
              IF cmode = "INTERSECTION" THEN {} ELSE SelectedInside
        /\ cmode \in {"UNION", "INTERSECTION"} => ReversedCells = {}
        /\ cmode = "DIFFERENCE" => ReversedCells = CellsOfMesh("B")
        /\ cmode = "DIFFERENCE2" => ReversedCells = CellsOfMesh("A")

C14_Witness ==
    /\ cpc = "done"
    /\ cret = FALSE
    /\ cmode = "DIFFERENCE"
    /\ CellsOfMesh("A") # {}
    /\ ReversedCells # {}

\* --- C13: the outputs under NONE and under the other modes

StageOrder ==
    <<"GetPolyStripsA", "GetPolyStripsB", "CleanStrips",
      "CutCellsA", "CutCellsB",
      "RestoreOrigPointsA", "RestoreOrigPointsB",
      "ResolveOverlapsA", "ResolveOverlapsB",
      "AddAdjacentPointsA", "AddAdjacentPointsB",
      "DisjoinPolysA", "DisjoinPolysB",
      "MergePointsA", "MergePointsB",
      "CombineRegions">>

\* the stages of StageOrder the invocation has run, in the order it ran them
StagesRun == SelectSeq(ran, LAMBDA stage : stage \in Range(StageOrder))

\* the invocation recomputes the cut
Recomputes == ran # <<>> /\ ran[1] = "PreventEqualCaptPoints"

\* C15: an invocation that recomputes the cut runs GetPolyStrips,
\* CleanStrips, CutCells, RestoreOrigPoints, ResolveOverlaps,
\* AddAdjacentPoints, DisjoinPolys, MergePoints and CombineRegions in this
\* order, each on A and then on B; none is run twice, and none is left out
\* when the invocation succeeds
C15_StageOrder ==
    Recomputes =>
        /\ Len(StagesRun) <= Len(StageOrder)
        /\ StagesRun = SubSeq(StageOrder, 1, Len(StagesRun))
        /\ (pc = "returned" /\ err = NoErr) => StagesRun = StageOrder

C15_Witness ==
    /\ Recomputes
    /\ pc = "returned"
    /\ err = NoErr
    /\ StagesRun = StageOrder

\* --- C18: CleanStrips

\* the contact points of a strip
StripInds(strip) == {strip[k].ind : k \in DOMAIN strip}

\* the strips of a bundle that have two ends of capture None and no area
NoAreaStrips(pStrips) ==
    {s \in DOMAIN pStrips.strips :
        /\ pStrips.pts[pStrips.strips[s][1].ind].capt = "Not"
        /\ pStrips.pts[pStrips.strips[s][Len(pStrips.strips[s])].ind].capt
              = "Not"
        /\ ~HasArea(pStrips.strips[s])}

\* the contact points of these strips in all bundles of a mesh
Dropped(polyStrips) ==
    UNION {UNION {StripInds(polyStrips[poly].strips[s]) :
                    s \in NoAreaStrips(polyStrips[poly])} :
             poly \in DOMAIN polyStrips}

\* the strips of a bundle that have no point in D, in their order
Untouched(strips, D) ==
    SelectSeq(strips, LAMBDA strip : StripInds(strip) \cap D = {})

\* the bundles after CleanStrips hold the strips without a point of D, and
\* all of them
StripsCleaned(before, after, D) ==
    /\ DOMAIN after = DOMAIN before
    /\ \A poly \in DOMAIN before :
          /\ \A s \in DOMAIN after[poly].strips :
                StripInds(after[poly].strips[s]) \cap D = {}
          /\ after[poly].strips = Untouched(before[poly].strips, D)

\* the lines at a point of D are deleted
LinesDeleted(before, after, D) ==
    /\ DOMAIN after = DOMAIN before
    /\ \A k \in DOMAIN before :
          (before[k].f \in D \/ before[k].g \in D) => after[k].del

CleanedUp(D) ==
    /\ StripsCleaned(polyStripsA, polyStripsA', D)
    /\ StripsCleaned(polyStripsB, polyStripsB', D)
    /\ LinesDeleted(contLines, contLines', D)

\* C18: with D the contact points of all strips, of both meshes, that have
\* two ends of capture None and no area, after CleanStrips no strip of any
\* bundle holds a point of D, every contact line at a point of D is marked
\* deleted, and every strip without a point of D is still there
C18_CleanStripsDrops ==
    [][(spc = "CleanStrips" /\ spc' # spc)
          => CleanedUp(Dropped(polyStripsA) \cup Dropped(polyStripsB))]_vars

C18_Witness ==
    /\ spc = "CutCells"
    /\ \E k \in DOMAIN contLines : contLines[k].del
    /\ \E poly \in DOMAIN polyStripsA : polyStripsA[poly].strips # <<>>
    /\ \E poly \in DOMAIN polyStripsB : polyStripsB[poly].strips # <<>>

\* ------------------------------------------------------------------------
\* Properties of the single functions (SpecUnits)
\* ------------------------------------------------------------------------

\* the indices of a strip read the same from both ends
Palindrome(strip) ==
    \A k \in DOMAIN strip : strip[k].ind = strip[Len(strip) + 1 - k].ind

InnermostDiffer(strip) ==
    strip[(Len(strip) - 1) \div 2].ind # strip[(Len(strip) + 3) \div 2].ind

C17_HasAreaInnermostPair ==
    upc = "HasArea" =>
        (uRes = FALSE <=> /\ Len(uStrip) % 2 = 1
                          /\ Len(uStrip) >= 3
                          /\ ~ InnermostDiffer(uStrip))

StartPt == uPts[uStrip[1].ind]
EndPt == uPts[uStrip[Len(uStrip)].ind]

\* res is strip with a reversed copy added that leaves out the junction
\* element: twice as long less one, the same from both ends, and strip is
\* its first or its second half
DoubledOf(res, strip) ==
    /\ Len(res) = 2 * Len(strip) - 1
    /\ Len(strip) >= 2
    /\ Palindrome(res)
    /\ \/ SubSeq(res, 1, Len(strip)) = strip
       \/ SubSeq(res, Len(strip), Len(res)) = strip

\* C19 as stated: CompleteStrips doubles a strip exactly when both of its
\* endpoints have capture None and start.ind differs from end.ind; every
\* other strip, in particular one with a boundary-captured or Branched
\* endpoint and a None endpoint, is left unchanged.
C19_DoublesAsStated ==
    upc = "CompleteStrips" =>
        IF StartPt.ind # EndPt.ind /\ StartPt.capt = "Not" /\ EndPt.capt = "Not"
        THEN DoubledOf(uRes, uStrip)
        ELSE uRes = uStrip

\* C19: CompleteStrips doubles a strip exactly when start.ind differs from
\* end.ind and at least one of its endpoints has capture None; the doubled
\* strip starts and ends at the same contact point, which is the endpoint
\* that is not None (the end point when both are None); every other strip
\* is left unchanged.
C19_Doubles ==
    upc = "CompleteStrips" =>
        IF StartPt.ind # EndPt.ind /\ (StartPt.capt = "Not" \/ EndPt.capt = "Not")
        THEN /\ DoubledOf(uRes, uStrip)
             /\ uRes[1].ind = uRes[Len(uRes)].ind
             /\ uRes[1].ind = IF StartPt.capt = "Not" THEN EndPt.ind
                              ELSE StartPt.ind
        ELSE uRes = uStrip

\* a strip from a boundary-captured point over a second point to a None
\* point came back doubled
C19_Witness ==
    /\ upc = "CompleteStrips"
    /\ Len(uStrip) = 3
    /\ StartPt.ind # EndPt.ind
    /\ StartPt.capt = "Edge"
    /\ EndPt.capt = "Not"
    /\ Len(uRes) = 5

\* the polygons x of A and y of B at the contact line lie in one half-plane
\* with their normals the same way
Coincident(x, y) ==
    IsCongruent(uPolys.ppA[x], uPolys.ppB[y]) = "Equal"

\* the region of a polygon at the line is selected when the label the
\* polygon got is the label wanted in its mesh
SelectedA(x) == uRes.ppA[x].loc = CombA(uMode)
SelectedB(y) == uRes.ppB[y].loc = CombB(uMode)

CutStages ==
    {"PreventEqualCaptPoints", "Contact", "DegreeCheck", "GetPolyStripsA",
     "GetPolyStripsB", "CleanStrips", "CutCellsA", "CutCellsB"}
       \cup Range(VoidStages)

\* an input is newer than the time stored for it
Newer == mtimeA > timePdA \/ mtimeB > timePdB

\* the step that enters RequestData
Enters == pc \in {"idle", "returned"} /\ pc' \notin {"idle", "returned"}

\* the invocation has returned from inside the cut
AbortedInCut ==
    /\ pc = "returned"
    /\ ran # <<>>
    /\ ran[Len(ran)] \in CutStages

\* C29: the cut stages are executed iff an input's modification time is
\* greater than the stored one; the stored times are updated only when
\* MergePoints has completed on both meshes; so after an invocation aborted
\* in a cut stage an input is still newer and the next invocation executes
\* the cut again from the cleaning on, and an invocation on inputs that are
\* not newer executes CombineRegions alone, on the complete cut meshes,
\* which CombineRegions does not modify.
C29_CutIffNewer ==
    /\ [] (AbortedInCut => Newer)
    /\ [] ((~ Newer /\ pc \in {"idle", "returned", "CombineRegions"})
              => modPd = "cut")
    /\ [] (pc \in CutStages => Newer)
    /\ [][/\ Enters =>
               /\ Newer => (pc' = "PreventEqualCaptPoints" /\ modPd' = "cleaned")
               /\ ~ Newer => (pc' = "CombineRegions" /\ modPd' = modPd)
          /\ (timePdA' # timePdA \/ timePdB' # timePdB) =>
               /\ pc = "MergePointsB"
               /\ ran' = <<"PreventEqualCaptPoints", "Contact", "DegreeCheck",
                           "GetPolyStripsA", "GetPolyStripsB", "CleanStrips",
                           "CutCellsA", "CutCellsB">> \o VoidStages
               /\ timePdA' = mtimeA
               /\ timePdB' = mtimeB
          /\ pc = "CombineRegions" =>
               (modPd' = modPd /\ timePdA' = timePdA /\ timePdB' = timePdB)
         ]_vars

\* inputs modified after a complete cut, an invocation cut them again, and a
\* further invocation has run CombineRegions alone and failed in it
C29_Witness ==
    /\ pc = "returned"
    /\ ran = <<"CombineRegions">>
    /\ err = "Boolean operation failed."
    /\ modPd = "cut"
    /\ timePdA = 2
    /\ timePdB = 1

\* ------------------------------------------------------------------------
\* The failure of CombineRegions (SpecCombine)
\* ------------------------------------------------------------------------

\* CombineRegions has returned under one of the four operators
Returned == cpc = "done" /\ cmode # "NONE"

\* every region of both meshes has a label
AllLocated ==
    /\ DOMAIN locsA = 0..numA - 1
    /\ DOMAIN locsB = 0..numB - 1

LabelsOf(r) ==
    SelectSeq(SubSeq(uPolys, 1, uRes.k), LAMBDA o : o.region = r)

\* C25: the label recorded for a region is the label of the first contact
\* line, in line order, that classified it: a region no line classified
\* has no entry, and a later line that computes another label for the
\* region leaves the entry as it is.
C25_FirstLabelKept ==
    upc = "labels" =>
        \A r \in 0..MaxRegions - 1 :
            IF LabelsOf(r) = <<>>
            THEN r \notin DOMAIN uRes.locs
            ELSE r \in DOMAIN uRes.locs /\ uRes.locs[r] = LabelsOf(r)[1].loc

\* two lines gave region 0 different labels and the first one is recorded
C25_Witness ==
    /\ upc = "labels"
    /\ uRes.k = 2
    /\ uPolys[1] = [region |-> 0, loc |-> "Inside"]
    /\ uPolys[2] = [region |-> 0, loc |-> "Outside"]
    /\ uRes.locs[0] = "Inside"

\* the call RunGetLoc makes in this state: the pair that locates and the
\* polygon it is given
CallNo == CHOOSE k \in 1..4 : upc = <<"polys", "GetLoc1", "GetLoc2", "GetLoc3">>[k]
RefPair(q) == q[GetLocCalls[CallNo][1]]
Target(q) == q[GetLocCalls[CallNo][2]][GetLocCalls[CallNo][3]]

\* what the call of this step is stated to do to the polygon ref of the
\* pair, congruent to the target, and to the target
CongruentAsStated(ref, refAfter, targetAfter) ==
    IF IsCongruent(ref, Target(uRes)) = "Opposite"
    THEN /\ refAfter.loc = (IF uMode = "INTERSECTION" THEN "Outside" ELSE "Inside")
         /\ targetAfter.loc = refAfter.loc
    ELSE uMode \in {"UNION", "INTERSECTION"}
            => refAfter.loc = "Inside" /\ targetAfter.loc = "Outside"

\* the target is labelled by its angle and the pair keeps its labels
AngleAsStated(pp, pT, ppAfter, targetAfter) ==
    /\ targetAfter.loc = (IF GetAngle(pp.pA.th, pT.th, pp.pA.s)
                                > GetAngle(pp.pA.th, pp.pB.th, pp.pA.s)
                          THEN "Inside" ELSE "Outside")
    /\ ppAfter.pA.loc = pp.pA.loc
    /\ ppAfter.pB.loc = pp.pB.loc

\* C23: one call of GetLoc(pT, mode): a reference polygon congruent
\* opposite to pT gets, with pT, Outside under INTERSECTION and Inside
\* under every other operator; a reference polygon congruent equal gets
\* Inside and pT Outside under UNION and INTERSECTION; with pT congruent to
\* neither reference polygon only pT is labelled, Inside exactly when the
\* angle from pA to pT is larger than the angle from pA to pB, and the
\* labels of pA and pB stay.
C23_GetLocAsStated ==
    [][ (upc \in {"polys", "GetLoc1", "GetLoc2", "GetLoc3"}) =>
          (IF IsCongruent(RefPair(uRes).pA, Target(uRes)) # "Not"
           THEN CongruentAsStated(RefPair(uRes).pA, RefPair(uRes').pA,
                                  Target(uRes'))
           ELSE IF IsCongruent(RefPair(uRes).pB, Target(uRes)) # "Not"
           THEN CongruentAsStated(RefPair(uRes).pB, RefPair(uRes').pB,
                                  Target(uRes'))
           ELSE AngleAsStated(RefPair(uRes), Target(uRes), RefPair(uRes'),
                              Target(uRes'))) ]_vars

\* the third call found ppB.pA congruent to neither polygon of the pair of
\* A, whose polygons the first two calls had labelled differently, and left
\* their labels
C23_Witness ==
    /\ upc = "GetLoc3"
    /\ IsCongruent(uRes.ppA.pA, uRes.ppB.pA) = "Not"
    /\ IsCongruent(uRes.ppA.pB, uRes.ppB.pA) = "Not"
    /\ uRes.ppA.pA.loc = "Inside"
    /\ uRes.ppA.pB.loc = "Outside"
    /\ uRes.ppB.pA.loc = "Inside"


\* ------------------------------------------------------------------------
\* Properties of the assembly of the strips (SpecUnits)
\* ------------------------------------------------------------------------

\* the lines of the polygon after RemoveDuplicates, as pairs of points
Kept ==
    LinePairs(uPolys, RemoveDuplicates(uPolys, [k \in DOMAIN uPolys |-> k]))

\* the line l joins the elements i and i + 1 of the strip
Joins(l, strip, i) ==
    {strip[i].ind, strip[i + 1].ind} = {l[1], l[2]}

StripPtsA == NewBundles(modPdA, contPts, contLines, "A")

\* the positions of the ring at which the point of sp lies on a vertex
VerticesAt(sp, ring) ==
    {k \in 1..Len(ring) : modPdA.pts[ring[k]] = sp.pt}

\* what is stated of one StripPoint sp of a polygon with the ring ring
StripPtAsStated(sp, ring) ==
    /\ sp.capt # "B"
    /\ sp.edge[1] # NOTSET <=> sp.capt \in {"A", "Edge"}
    /\ sp.edge[1] # NOTSET =>
          \E k \in 1..Len(ring) :
             ring[k] = sp.edge[1] /\ RingNext(ring, k) = sp.edge[2]
    /\ 0 <= sp.t[1] /\ sp.t[1] <= sp.t[2]
    /\ \A k \in VerticesAt(sp, ring) :
          sp.capt = "A" /\ sp.edge[1] = ring[k]

\* C27: after GetStripPoints, every StripPoint of the polygon has a
\* capture other than B, has its edge set exactly when its capture is A or
\* Edge, and then over two consecutive vertices of the ring, has t in
\* [0, 1], and, when it lies on a vertex v of the polygon, has capture A
\* and edge[0] = v.
C27_StripPointsAsStated ==
    spc = "GetPolyStripsB" =>
        \A poly \in DOMAIN StripPtsA : \A ind \in DOMAIN StripPtsA[poly].pts :
            StripPtAsStated(StripPtsA[poly].pts[ind], StripPtsA[poly].poly)

\* the vertex before position k of a ring
RingPrev(ring, k) == ring[((k + Len(ring) - 2) % Len(ring)) + 1]

\* one StripPoint sp of a polygon: as stated, but on a vertex v it has
\* capture A and edge[0] = v only if an edge at v was tested
StripPtAsTested(sp, ring, src) ==
    /\ sp.capt # "B"
    /\ sp.edge[1] # NOTSET <=> sp.capt \in {"A", "Edge"}
    /\ sp.edge[1] # NOTSET =>
          \E k \in 1..Len(ring) :
             ring[k] = sp.edge[1] /\ RingNext(ring, k) = sp.edge[2]
    /\ 0 <= sp.t[1] /\ sp.t[1] <= sp.t[2]
    /\ \A k \in VerticesAt(sp, ring) :
          IF src \in {NOTSET, ring[k], RingPrev(ring, k)}
          THEN sp.capt = "A" /\ sp.edge[1] = ring[k] /\ sp.t[1] = 0
          ELSE sp.capt \in {"Not", "Branched"} /\ ~ sp.catched

\* C27 (as the code has it): after GetStripPoints every StripPoint has a
\* capture other than B, its edge set exactly when its capture is A or
\* Edge, and then over two consecutive vertices of the ring, and t in
\* [0, 1]; a point on a vertex v of the polygon has capture A, edge[0] = v
\* and t = 0 when its line end declares no source or declares v or the
\* vertex before v in the ring, and with any other declared source it is
\* left uncaught, with no capture on the boundary, for the fall-back
\* lookup of GetPolyStrips.
C27_StripPointsAsTested ==
    spc = "GetPolyStripsB" =>
        \A poly \in DOMAIN StripPtsA : \A ind \in DOMAIN StripPtsA[poly].pts :
            StripPtAsTested(StripPtsA[poly].pts[ind], StripPtsA[poly].poly,
                            DeclaredSource(contLines, "A", poly, ind))

\* a contact point with no declared source on the first vertex of the ring
\* of polygon 1 was captured as B on the last edge and ends with capture A
\* on the first
C27_Witness ==
    /\ spc = "GetPolyStripsB"
    /\ 1 \in DOMAIN StripPtsA
    /\ \E ind \in DOMAIN StripPtsA[1].pts :
          /\ StripPtsA[1].pts[ind].pt = modPdA.pts[StripPtsA[1].poly[1]]
          /\ DeclaredSource(contLines, "A", 1, ind) = NOTSET
          /\ StripPtsA[1].pts[ind].capt = "A"
          /\ StripPtsA[1].pts[ind].edge[1] = StripPtsA[1].poly[1]
          /\ StripPtsA[1].pts[ind].t = <<0, 1>>


\* ------------------------------------------------------------------------
\* Properties of the init loop of CutCells (SpecUnits)
\* ------------------------------------------------------------------------

\* the StripPts of the first and of the last element after the init loop
FirstPt == uPts[uRes[1].ind]
LastPt == uPts[uRes[Len(uRes)].ind]

\* C28: after the init loop of CutCells a kept strip has a first element of
\* side Start with ref the start vertex of the edge of its StripPoint; with
\* one end Branched and the other on the boundary the Branched end is the
\* last element and has no side; with both ends on the same edge and of
\* different contact points t of the first is not greater than t of the
\* last; and a last element on the boundary has side End with ref the
\* start vertex of its edge.
C28_InitOrientsStrip ==
    upc = "init" =>
        /\ [k \in 1..Len(uRes) |-> uRes[k].ind] \in
              {[k \in 1..Len(uStrip) |-> uStrip[k].ind],
               [k \in 1..Len(uStrip) |-> Reverse(uStrip)[k].ind]}
        /\ uRes[1].side = "Start" /\ uRes[1].ref = FirstPt.edge[1]
        /\ "Branched" \in {FirstPt.capt, LastPt.capt} =>
              /\ LastPt.capt = "Branched"
              /\ FirstPt.capt \in Boundary
              /\ uRes[Len(uRes)].side = "None"
        /\ (/\ FirstPt.capt \in Boundary /\ LastPt.capt \in Boundary
            /\ FirstPt.edge[1] = LastPt.edge[1]
            /\ FirstPt.ind # LastPt.ind) => ~ TGreater(FirstPt, LastPt)
        /\ LastPt.capt \in Boundary =>
              /\ uRes[Len(uRes)].side = "End"
              /\ uRes[Len(uRes)].ref = LastPt.edge[1]

\* a strip that ran against t between two points on one edge was turned
\* round
C28_Witness ==
    /\ upc = "init"
    /\ uPts[uStrip[1].ind].capt = "Edge"
    /\ uPts[uStrip[Len(uStrip)].ind].capt = "Edge"
    /\ uPts[uStrip[1].ind].edge = uPts[uStrip[Len(uStrip)].ind].edge
    /\ uPts[uStrip[1].ind].t = <<3, 4>>
    /\ uPts[uStrip[Len(uStrip)].ind].t = <<1, 4>>
    /\ uRes[1].ind = uStrip[Len(uStrip)].ind
    /\ uRes[1].side = "Start"
    /\ uRes[Len(uRes)].side = "End"

\* ------------------------------------------------------------------------
\* C30: the weaving loop terminates
\* ------------------------------------------------------------------------

\* the step of the loop that splits the front piece by the strip wK
SplitStep == wpc = "while" /\ wpc' = "for" /\ wK \notin wLeft'

\* the step of the loop that leaves the strip wK without a split
StopStep == wpc = "while" /\ wpc' = "for" /\ wK \in wLeft'

\* the pieces a split put at the back of the queue
Added(before, after) == SubSeq(after, Len(before), Len(after))

\* the points of the mesh made for the elements of a strip
DescOf(strip) == UNION {Range(strip[k].desc) : k \in DOMAIN strip}

\* a split takes the front piece and puts at most two pieces to the back
\* of the queue, each of more than 2 vertices, and two of them only if the
\* strip has area
SplitAsStated(strip, before, after) ==
    /\ Len(after) - (Len(before) - 1) \in 0..2
    /\ SubSeq(after, 1, Len(before) - 1) = Tail(before)
    /\ \A i \in DOMAIN Added(before, after) :
          Len(Added(before, after)[i]) > 2
    /\ Len(Added(before, after)) = 2 => HasArea(strip)

\* C30: the weaving loop of CutCells comes to its end for every strip:
\* each pass takes the piece at the front of the queue and either splits
\* it by the strip (at most two pieces go back, each of more than 2
\* vertices, the second only if the strip has area) or puts it back and
\* counts it; the loop leaves a strip only after a split or when every
\* piece of the queue was examined without one, and then the queue is as
\* it was when the loop came to the strip, no piece has a point of the
\* strip, and CutCells returns false, its value for success.
C30_WeavingTerminates ==
    /\ <>(wpc = "done")
    /\ [](wpc = "done" =>
            /\ wRet = "false"
            /\ \A k \in wLeft : \A i \in DOMAIN wPolys :
                  Range(wPolys[i]) \cap DescOf(wStrips[k]) = {})
    /\ [][ /\ SplitStep =>
                /\ wCycle < Len(wPolys)
                /\ SplitAsStated(wStrips[wK], wPolys, wPolys')
           /\ StopStep =>
                /\ wCycle = Len(wPolys)
                /\ wPolys' = wPolys
                /\ wPolys = wStart
           /\ (wpc = "while" /\ wpc' = "while") =>
                /\ wCycle < Len(wPolys)
                /\ wPolys' = Append(Tail(wPolys), Head(wPolys))
                /\ wCycle' = wCycle + 1 ]_vars

\* CutCells has returned after a split by one strip and after it left
\* another strip without a split
C30_Witness ==
    /\ wpc = "done"
    /\ wRet = "false"
    /\ wLeft # {}
    /\ \E k \in DOMAIN wStrips : k \notin wLeft
    /\ Len(wPolys) >= 2

\* ------------------------------------------------------------------------
\* C22: the links of the mesh when the stages read them
\* ------------------------------------------------------------------------

\* C22: the links are never read while stale: every stage that asks for
\* the cells of a point has rebuilt the links at its begin, no call of
\* GetPointCells comes after a change of the cells of the mesh
\* (ReplaceCellPoint, a cell inserted or deleted) without BuildLinks in
\* between, and so no call lists other cells than those that use the point.
C22_LinksNeverStale ==
    \A s \in Querying :
        /\ <<"noRebuild", s>> \notin kLog
        /\ <<"afterMutation", s>> \notin kLog
        /\ <<"stale", s>> \notin kLog

\* ResolveOverlaps, which began without BuildLinks, asked for the cells of
\* a vertex after it had replaced the vertex in one of them, and the list
\* it got still held that cell
C22_StaleInResolveOverlaps ==
    /\ <<"noRebuild", "ResolveOverlaps">> \in kLog
    /\ <<"afterMutation", "ResolveOverlaps">> \in kLog
    /\ <<"stale", "ResolveOverlaps">> \in kLog

\* what holds of the other stages: AddAdjacentPoints, DisjoinPolys,
\* MergePoints and CombineRegions rebuild the links at their begin and are
\* never given a list that differs from the cells that use the point
C22_OtherStagesFresh ==
    \A s \in Querying \ {"ResolveOverlaps"} :
        /\ <<"noRebuild", s>> \notin kLog
        /\ <<"stale", s>> \notin kLog

\* ------------------------------------------------------------------------
\* C21: OrigCellIds of the cells that replace a polygon
\* ------------------------------------------------------------------------

\* the cells of a mesh that are not marked deleted
Live(mpd) == DOMAIN mpd.polys \ mpd.deleted

\* the cells a step inserted
Inserted(old, new) == DOMAIN new.polys \ DOMAIN old.polys

\* the cells a step marked deleted
Replaced(old, new) == new.deleted \ old.deleted

\* the places of the vertices of a cell
Places(mpd, c) == {mpd.pts[mpd.polys[c][k]] : k \in DOMAIN mpd.polys[c]}

\* every cell the step inserted has the OrigCellId of a cell the step
\* marked deleted, two of whose vertices it lies on, and no cell that was
\* there before has changed its OrigCellId
ReplacementKeepsOrigCellId(old, new) ==
    /\ \A c \in Inserted(old, new) : \E r \in Replaced(old, new) :
          /\ r \in Live(old)
          /\ new.origCellIds[c] = old.origCellIds[r]
          /\ Cardinality(Places(new, c) \cap Places(old, r)) >= 2
    /\ \A c \in DOMAIN old.polys : new.origCellIds[c] = old.origCellIds[c]

\* C21: every polygon CutCells inserts (the copy of the shortcut or a
\* woven piece) and every polygon AddAdjacentPoints rebuilds carries the
\* OrigCellId of the polygon it replaces, and that polygon is marked
\* deleted; so at every time all polygons that are not deleted have the
\* index of a polygon of the cleaned input mesh as OrigCellId.
C21_OrigCellIdPreserved ==
    /\ [](\A c \in Live(kPd) : kPd.origCellIds[c] \in DOMAIN MeshTA.polys)
    /\ [][ReplacementKeepsOrigCellId(kPd, kPd')]_vars

\* all stages are through; a piece that CutCells inserted was rebuilt by
\* AddAdjacentPoints, and the cell that took its place has its OrigCellId
C21_Witness ==
    /\ kpc = "done"
    /\ \E r \in kPd.deleted : \E c \in Live(kPd) :
          /\ r >= Cardinality(DOMAIN MeshTA.polys)
          /\ c > r
          /\ kPd.origCellIds[c] = kPd.origCellIds[r]
          /\ Cardinality(Places(kPd, c) \cap Places(kPd, r)) >= 2

=========================================================================
